---- MODULE Spec2Model ----
(***************************************************************************)
(* The election and discipleship scripts of src/scripts as one state       *)
(* machine.                                                                *)
(*                                                                         *)
(* Each script is a sequential HTTP client.  One action is one HTTP        *)
(* request together with the local code that runs on its response, up to   *)
(* the next request.  The remote server is the environment: every          *)
(* response (transport failure, status code, body) is drawn from a small   *)
(* set.  The variable script says which script this run executes.          *)
(*                                                                         *)
(* Python values: None is modelled as 0 (ids are positive, and the code    *)
(* only tests ids for truthiness); a user/member/candidate dict is         *)
(* modelled by its id, the only field that reaches a request.              *)
(***************************************************************************)
EXTENDS Integers, Sequences, FiniteSets, TLC

VARIABLES
    script,       \* which script runs: "parque", "parque_v2", "criar", "votar",
                  \* "discipulado", "discipulado_real"
    pc,           \* position of the run in main
    members,      \* members (Parque, discipulado) / usuarios (criar): ids, in
                  \* fetch order
    voters,       \* voters (Parque) / votantes_ids (criar) / votantes (votar)
    cfg_voters,   \* the "voters" field of the configuration that was POSTed
    candidates,   \* fetched candidates (Parque) / candidatos (criar, votar)
    config_id,    \* config_id, 0 for None
    election_id,  \* election_id, 0 for None
    pos,          \* index of the position (cargo) in process, from 0
    vi,           \* index in voters of the next voter of the loop, from 1
    votos,        \* votos_registrados (criar) / votos_ok (votar)
    erros,        \* votos_erro (votar)
    noms,         \* per position: nomination requests sent so far
    votes,        \* per position: vote requests sent so far
    round,        \* per position: how its voting round went
    adv,          \* the last advance-position request: [position, ok]
    sent,         \* per endpoint: requests sent so far
    last,         \* the last request sent, with its response
    shown,        \* what show_results of teste_eleicao_parque.py printed
    outstanding,  \* requests sent whose call has not returned yet
    admins,       \* admins of teste_discipulado.py: ids, in fetch order
    interested,   \* interested of teste_discipulado.py: ids, in fetch order
    relationship_id_1, \* relationship_id_1 / rel_id_1, 0 for None
    request_id,   \* request_id of the discipulado scripts, 0 for None
    req_to_reject, \* req_to_reject of teste_discipulado.py: [created, id]
    existing,     \* the listed request teste_discipulado_real.py took over
    log,          \* the POST and PUT requests of a discipulado script, in order
    summary       \* what the end of a discipulado script reported

vars == <<script, pc, members, voters, cfg_voters, candidates, config_id,
          election_id, pos, vi, votos, erros, noms, votes, round, adv, sent, last,
          shown, outstanding, admins, interested, relationship_id_1,
          request_id, req_to_reject, existing, log, summary>>

\* The state of the discipulado scripts, which the election scripts leave alone.
discipulado == <<admins, interested, relationship_id_1, request_id,
                 req_to_reject, existing, log, summary>>

\* The state of the election scripts that the discipulado scripts leave alone.
election_vars == <<voters, cfg_voters, candidates, config_id, election_id, pos,
                   vi, votos, erros, noms, votes, round, adv, sent, last, shown,
                   outstanding>>

----------------------------------------------------------------------------
(* Bounds of the model *)

\* A /api/users answer of the discipulado server holds at most this many
\* users of each of the roles superadmin, pastor, admin and member.
MaxRoleUsers == 1
\* A /api/users answer of the discipulado server holds at most this many
\* interested users.
MaxInterested == 3
\* The server lists at most this many discipleship requests.
MaxListed == 2

\* The server lists at most this many church members (Parque scripts).
MaxMembers == 5
\* The server lists at most this many users (criar_eleicao_teste.py).
MaxUsuarios == 11
\* The server's short candidate lists hold at most this many candidates.
MaxCandidates == 2
\* random.sample is followed through at most this many of its outcomes.
MaxSamples == 2
\* A position of the results answer lists at most this many candidates.
MaxResultCandidates == 4
\* The server of the runs that are followed through their first nomination
\* round only lists at most this many church members.
MaxManyMembers == 11

----------------------------------------------------------------------------
(* Program constants *)

POSITIONS == <<"Primeiro Anciao(a)", "Secretario(a)", "Tesoureiro(a)">>

CARGOS == <<"Anciao", "Diacono", "Diaconisa", "Diretor de Escola Sabatina",
            "Diretor de Jovens", "Diretor de Comunicacao", "Diretor de Musica",
            "Diretor de Mordomia", "Secretario da Igreja", "Tesoureiro">>

CHURCH_NAME == "Parque Sao Jose (g)"

ADMIN_USER_ID == 1

\* len(members) < 5 ends main
MIN_MEMBERS == 5
\* num_voters = min(10, len(members))
MAX_VOTERS == 10
\* random.choice(candidates[:10])
TOP_N == 10
\* len(usuarios) < 10 ends main
MIN_USUARIOS == 10
\* random.sample(usuarios, 10)
NUM_VOTANTES == 10
\* random.sample(candidatos_pool, min(20, len(candidatos_pool)))
MAX_CANDIDATOS == 20
\* enumerate(candidates[:3], 1) of show_results
TOP_RESULTS == 3
\* CONFIG_ID of votar.py
CONFIG_ID == 207

votantes == <<4425, 4411, 4533, 4399, 4455, 4513, 4488, 4417, 4629, 4461>>
candidatos == <<4628, 4486, 4674, 4547, 4537, 4576, 4500, 4447, 4524, 4582>>

ParqueScripts == {"parque", "parque_v2"}
Scripts == ParqueScripts \cup {"criar", "votar"}

\* The positions a script iterates over.
Cargos(s) == IF s = "criar" THEN CARGOS
             ELSE IF s = "votar" THEN <<"nomination">>
             ELSE POSITIONS

----------------------------------------------------------------------------
(* Python helpers *)

Range(s) == {s[i] : i \in 1..Len(s)}

min(a, b) == IF a < b THEN a ELSE b

\* Python truthiness of an id-or-None.
Truthy(x) == x # 0

\* a or b
Or(a, b) == IF Truthy(a) THEN a ELSE b

\* str(user_id): the header value is a string, not the number.
Str(n) == <<"str", n>>

\* a request sent without an x-user-id header
NoHeader == <<>>

\* A variant that draws with replacement, as random.choices does: the same
\* element k times.
random_choices(population, k) ==
    IF k = 0 THEN {<<>>}
    ELSE {[i \in 1..k |-> population[s]] : s \in 1..min(MaxSamples, Len(population))}

\* random.sample(population, k): k distinct elements in some order.  The model
\* draws from the cyclic windows of the population (k elements from a start,
\* wrapping around), for the first MaxSamples starts.
random_sample(population, k) ==
    IF k = 0 THEN {<<>>}
    ELSE {[i \in 1..k |-> population[((s + i - 2) % Len(population)) + 1]] :
             s \in 1..min(MaxSamples, Len(population))}

\* random.choice(seq): any element of a non-empty sequence.
random_choice(seq) == Range(seq)

\* A variant of the loop test that leaves a loop before its last element.
HasNextButLast(i, seq) == i < Len(seq) - 1

\* for x in seq: after the element at index i (from 1), is there another one?
HasNext(i, seq) == i < Len(seq)

\* seq[:n]
Take(seq, n) == SubSeq(seq, 1, min(n, Len(seq)))

\* [m for m in seq if m['id'] != id]
Without(seq, id) == SelectSeq(seq, LAMBDA m : m # id)

Ids(users) == [i \in 1..Len(users) |-> users[i].id]

----------------------------------------------------------------------------
(* The server's answers *)

StatusCodes == {200, 201, 500}

\* A response: the transport failed (requests raises), or a status came back
\* with a body that is JSON (body) or is not.
Responses(bodies, none) ==
    {[exc |-> TRUE, status |-> 0, json |-> FALSE, body |-> none]}
    \cup {[exc |-> FALSE, status |-> s, json |-> FALSE, body |-> none] : s \in StatusCodes}
    \cup {[exc |-> FALSE, status |-> s, json |-> TRUE, body |-> b] :
             s \in StatusCodes, b \in bodies}

User(i, church, role, status) ==
    [id |-> i, church |-> church, role |-> role, status |-> status]

\* GET /api/users of the Parque server: n members of the church, among users
\* the filter of get_members must drop.
UsersBody(n) ==
    <<User(101, "Outra Igreja", "member", "approved")>>
    \o [i \in 1..n |-> User(i, CHURCH_NAME,
                            IF i % 2 = 0 THEN "member,missionary" ELSE "member",
                            IF i % 3 = 0 THEN "pending" ELSE "approved")]
    \o <<User(102, CHURCH_NAME, "", "approved"),
         User(103, CHURCH_NAME, "member", "inactive")>>

\* GET /api/users of the criar server: n users.
UsuariosBody(n) == [i \in 1..n |-> User(i, "IASD", "member", "approved")]

\* A fetched candidate list: the ids 1..n for some n up to MaxCandidates (so
\* it may name voters), or one list longer than TOP_N.
CandidateLists ==
    {[i \in 1..n |-> i] : n \in 0..MaxCandidates}
    \cup {[i \in 1..(TOP_N + 1) |-> i]}

NoDict == [empty |-> TRUE, id |-> 0, electionId |-> 0, election |-> 0,
           candidates |-> <<>>]

Dict(id, electionId, election, cands) ==
    [empty |-> FALSE, id |-> id, electionId |-> electionId, election |-> election,
     candidates |-> cands]

\* dict.get(key): 0 (None) when the key is missing.
\* POST /api/elections/config: {} | {"id": n} | a dict without "id".
ConfigBodies == {NoDict, Dict(CONFIG_ID, 0, 0, <<>>), Dict(0, 0, 0, <<>>)}

\* POST /api/elections/start: {"electionId": n} | {"election": {"id": n}} |
\* {"id": n} | a dict without any of them | {}.
StartBodies == {NoDict, Dict(0, 0, 0, <<>>), Dict(0, CONFIG_ID, 0, <<>>),
                Dict(0, 0, CONFIG_ID, <<>>), Dict(CONFIG_ID, 0, 0, <<>>)}

\* GET /api/elections/voting/{id}: {} | {"candidates": [...], ...}.
StatusBodies == {NoDict} \cup {Dict(0, 0, 0, c) : c \in CandidateLists}

\* a body of which the client reads nothing but whether it is JSON
PlainBodies == {NoDict}

\* the answers to a request whose body the client never parses
StatusResponses == {r \in Responses(PlainBodies, NoDict) : r.exc \/ r.json}

\* A key a dict does not have.
Missing == "<missing>"

\* The candidate dicts of a results answer: with name and votes, with
\* candidate_name and nominations, with none of the keys, with all of them.
ResultCandidate(i) ==
    CASE i % 4 = 1 -> [id |-> i, name |-> "Ana", candidate_name |-> Missing,
                       votes |-> "3", nominations |-> Missing]
      [] i % 4 = 2 -> [id |-> i, name |-> Missing, candidate_name |-> "Rui",
                       votes |-> Missing, nominations |-> "2"]
      [] i % 4 = 3 -> [id |-> i, name |-> Missing, candidate_name |-> Missing,
                       votes |-> Missing, nominations |-> Missing]
      [] OTHER -> [id |-> i, name |-> "Eva", candidate_name |-> "E.",
                   votes |-> "1", nominations |-> "4"]

\* The candidate lists of a results answer: up to MaxResultCandidates entries.
ResultLists == {[i \in 1..n |-> ResultCandidate(i)] : n \in 0..MaxResultCandidates}

\* The value of one position in results['results']: a raw list, a dict with
\* the list under 'candidates', or a dict without that key.
DataShapes == {"list", "dict", "dict_without_candidates"}

Data(shape, list) ==
    [is_list |-> shape = "list",
     list |-> IF shape = "list" THEN list ELSE <<>>,
     has_candidates |-> shape = "dict",
     candidates |-> IF shape = "dict" THEN list ELSE <<>>]

\* All the shapes a results answer gives to its first k positions.
ShapeSeqs == UNION {[1..k -> DataShapes] : k \in 0..Len(POSITIONS)}

NoResults == [has_results |-> FALSE, results |-> <<>>]

\* GET /api/elections/results/{id}: a dict without 'results', or
\* {"results": {position: data, ...}} where the positions hold the same
\* candidate list in one shape or another.
ResultsBodies ==
    {NoResults}
    \cup {[has_results |-> TRUE,
           results |-> [j \in 1..Len(sh) |->
                           [position |-> POSITIONS[j], data |-> Data(sh[j], list)]]] :
             sh \in ShapeSeqs, list \in ResultLists}

----------------------------------------------------------------------------
(* Bookkeeping of the requests sent *)

Endpoints == {"churches", "users", "config", "start", "nomination", "vote",
              "advance_phase", "advance_position", "voting", "results", "manage"}

NoRequest == [kind |-> "none", xuser |-> NoHeader, voter |-> 0, cand |-> 0,
              position |-> 0, phase |-> "", exc |-> FALSE, status |-> 0,
              body |-> NoDict, ok |-> FALSE]

\* One request: its endpoint, its x-user-id header, the voter and candidate it
\* names, the position it belongs to, the phase it asks for, and the response
\* (a dict body, if any) with the success flag the client derived from it.
Request(kind, xuser, voter, cand, position, phase, r, ok) ==
    [kind |-> kind, xuser |-> xuser, voter |-> voter, cand |-> cand,
     position |-> position, phase |-> phase, exc |-> r.exc, status |-> r.status,
     body |-> r.body,
     ok |-> ok]

Inc(f, k) == [f EXCEPT ![k] = @ + 1]

\* get_headers(user_id)["x-user-id"]
get_headers(user_id) == Str(user_id)

----------------------------------------------------------------------------
(* Results of the Python functions: raised, or returned val *)

Raise(none) == [raised |-> TRUE, val |-> none]
Return(v) == [raised |-> FALSE, val |-> v]

\* response.status_code == 200
IsOK(r) == r.status = 200

\* u.get('church') == CHURCH_NAME and 'member' in (u.get('role') or '')
\*   and u.get('status') in ['approved', 'pending']
IsChurchMember(u) ==
    /\ u.church = CHURCH_NAME
    /\ u.role \in {"member", "member,missionary"}
    /\ u.status \in {"approved", "pending"}

\* get_members(): [] on a non-200 status; the transport error and a body that
\* is not JSON are not caught.
get_members(r) ==
    IF r.exc THEN Raise(<<>>)
    ELSE IF ~IsOK(r) THEN Return(<<>>)
    ELSE IF ~r.json THEN Raise(<<>>)
    ELSE Return(Ids(SelectSeq(r.body, IsChurchMember)))

\* A variant of the check of main that lets four members through.
InsufficientMembersBelowFour(m) == Len(m) < MIN_MEMBERS - 1

\* main: if len(members) < 5: return
InsufficientMembers(m) == Len(m) < MIN_MEMBERS

\* A variant of the voter count without the cap of 10.
NumVotersUncapped(m) == Len(m)

\* create_election_config: num_voters = min(10, len(members))
NumVoters(m) == min(MAX_VOTERS, Len(m))

\* create_election_config(members), given the sample drawn and the response:
\* (config_id, voters), or (None, []) on a non-200 status.
create_election_config(sample, r) ==
    IF r.exc THEN Raise([config_id |-> 0, voters |-> <<>>])
    ELSE IF ~IsOK(r) THEN Return([config_id |-> 0, voters |-> <<>>])
    ELSE IF ~r.json THEN Raise([config_id |-> 0, voters |-> <<>>])
    ELSE Return([config_id |-> r.body.id, voters |-> sample])

\* result.get('electionId') or result.get('election', {}).get('id')
ParqueElectionId(body) == Or(body.electionId, body.election)

\* start_election(config_id): the election id, None on a non-200 status.
start_election(r) ==
    IF r.exc THEN Raise(0)
    ELSE IF ~IsOK(r) THEN Return(0)
    ELSE IF ~r.json THEN Raise(0)
    ELSE Return(ParqueElectionId(r.body))

\* A variant that reads the body of an answer of any status.
get_election_status_of_any_status(r) ==
    IF r.exc THEN Raise(NoDict)
    ELSE IF ~r.json THEN Raise(NoDict)
    ELSE Return(r.body)

\* get_election_status(config_id, voter_id): the status dict, None on non-200.
get_election_status(r) ==
    IF r.exc THEN Raise(NoDict)
    ELSE IF ~IsOK(r) THEN Return(NoDict)
    ELSE IF ~r.json THEN Raise(NoDict)
    ELSE Return(r.body)

\* teste_eleicao_parque_v2.py submit_nomination / submit_vote:
\* (status == 200, response.json() if status != 200 else None)
submit_v2(r) ==
    IF r.exc THEN Raise(FALSE)
    ELSE IF IsOK(r) THEN Return(TRUE)
    ELSE IF ~r.json THEN Raise(FALSE)
    ELSE Return(FALSE)

\* teste_eleicao_parque.py submit_nomination / submit_vote: status == 200
submit_v1(r) ==
    IF r.exc THEN Raise(FALSE) ELSE Return(IsOK(r))

\* advance_phase / advance_position:
\* (status == 200, response.json() if status == 200 else None)
advance(r) ==
    IF r.exc THEN Raise(FALSE)
    ELSE IF ~IsOK(r) THEN Return(FALSE)
    ELSE IF ~r.json THEN Raise(FALSE)
    ELSE Return(TRUE)

\* show_results of teste_eleicao_parque_v2.py: prints, returns nothing;
\* response.json() only on 200
show_results(r) ==
    IF r.exc THEN Raise(FALSE)
    ELSE IF ~IsOK(r) THEN Return(FALSE)
    ELSE IF ~r.json THEN Raise(FALSE)
    ELSE Return(TRUE)

\* A variant of the normalization that reads raw lists only.
NormalizeCandidatesListOnly(data) ==
    IF data.is_list THEN data.list ELSE <<>>

\* candidates = data if isinstance(data, list) else data.get('candidates', [])
NormalizeCandidates(data) ==
    IF data.is_list THEN data.list
    ELSE IF data.has_candidates THEN data.candidates
    ELSE <<>>

\* dict.get(key, default)
Get(value, default) == IF value # Missing THEN value ELSE default

\* name = c.get('name', c.get('candidate_name', 'N/A'));
\* votes = c.get('votes', c.get('nominations', 0)); the line printed
DisplayLine(i, c) ==
    [rank |-> i,
     name |-> Get(c.name, Get(c.candidate_name, "N/A")),
     votes |-> Get(c.votes, Get(c.nominations, "0"))]

\* for i, c in enumerate(candidates[:3], 1): print(...)
DisplayTop(cands) ==
    LET top == Take(cands, TOP_RESULTS) IN
    [i \in 1..Len(top) |-> DisplayLine(i, top[i])]

\* for position, data in results.get('results', {}).items(): what is printed
ResultLines(body) ==
    IF ~body.has_results THEN <<>>
    ELSE [j \in 1..Len(body.results) |->
             [position |-> body.results[j].position,
              data |-> body.results[j].data,
              candidates |-> NormalizeCandidates(body.results[j].data),
              top |-> DisplayTop(NormalizeCandidates(body.results[j].data))]]

\* show_results of teste_eleicao_parque.py: the lines printed; nothing on a
\* non-200 status; the transport error and a body that is not JSON raise.
show_results_v1(r) ==
    IF r.exc THEN Raise(<<>>)
    ELSE IF ~IsOK(r) THEN Return(<<>>)
    ELSE IF ~r.json THEN Raise(<<>>)
    ELSE Return(ResultLines(r.body))

\* A variant of the voter loop that stops one voter early.
MoreVotersButLast(i, vs) == i < Len(vs) - 1

\* for voter in voters: is there a voter after the one at index i?
MoreVoters(i, vs) == HasNext(i, vs)

\* candidates = [m for m in members if m['id'] != voter['id']]
NominationPool(m, voter) == Without(m, voter)

\* A variant of the vote pool without the cut at the first 10 entries.
VotePoolUncut(cands) == cands

\* candidates[:10] of process_position
VotePoolV2(cands) == Take(cands, TOP_N)

\* candidates of simulate_voting
VotePoolV1(cands) == cands

----------------------------------------------------------------------------
(* The functions of criar_eleicao_teste.py: every one catches Exception *)

\* criar_igreja(): the JSON of a 200 or 201 answer, else None
criar_igreja(r) ==
    IF r.exc THEN NoDict
    ELSE IF r.status = 200 \/ r.status = 201
         THEN (IF r.json THEN r.body ELSE NoDict)
    ELSE NoDict

\* buscar_usuarios(): response.json() whatever the status; [] on an exception
buscar_usuarios(r) ==
    IF r.exc THEN <<>>
    ELSE IF ~r.json THEN <<>>
    ELSE Ids(r.body)

\* A variant of the check of main that lets nine users through.
PoucosUsuariosBelowNine(u) == Len(u) < MIN_USUARIOS - 1

\* main: if len(usuarios) < 10: return
PoucosUsuarios(u) == Len(u) < MIN_USUARIOS

\* criar_configuracao_eleicao / iniciar_eleicao / buscar_resultados:
\* the JSON of a 200 answer, else None
json_if_200(r) ==
    IF r.exc THEN NoDict
    ELSE IF IsOK(r) THEN (IF r.json THEN r.body ELSE NoDict)
    ELSE NoDict

\* eleicao.get('election', {}).get('id') or eleicao.get('id')
CriarElectionId(body) == Or(body.election, body.id)

\* registrar_voto(): status == 200, False on an exception
registrar_voto(r) == IF r.exc THEN FALSE ELSE IsOK(r)

\* candidatos_pool = [u for u in usuarios if u['id'] not in votantes_ids]
CandidatosPool(usuarios, votantes_ids) ==
    SelectSeq(usuarios, LAMBDA u : u \notin Range(votantes_ids))

----------------------------------------------------------------------------
(* teste_discipulado.py and teste_discipulado_real.py: data and functions *)

DiscipuladoScripts == {"discipulado", "discipulado_real"}

\* The users teste_discipulado_real.py names, by id.
Reais == [admin |-> 4626, discipulador1 |-> 4361, discipulador2 |-> 4598,
          interessado1 |-> 4372, interessado2 |-> 4359]

\* The roles main of teste_discipulado.py fetches, in the order it does.
ROLES == <<"superadmin", "pastor", "admin", "member", "interested">>

\* The ids the server gives the users of a role.
RoleBase == [superadmin |-> 10, pastor |-> 20, admin |-> 30, member |-> 40,
             interested |-> 50]

RoleUsers(role, n) == [i \in 1..n |-> [id |-> RoleBase[role] + i, role |-> role]]

\* GET /api/users of the discipulado server: users of every role, mixed.
DiscUsersBodies ==
    {RoleUsers("interested", ni) \o RoleUsers("admin", na)
       \o RoleUsers("member", nm) \o RoleUsers("pastor", np)
       \o RoleUsers("superadmin", ns) :
         ns \in 0..MaxRoleUsers, np \in 0..MaxRoleUsers, na \in 0..MaxRoleUsers,
         nm \in 0..MaxRoleUsers, ni \in 0..MaxInterested}

\* The answers to GET /api/users.
UsersResponses == Responses(DiscUsersBodies, <<>>)

\* response.ok: a status below 400
response_ok(r) == ~r.exc /\ r.status < 400

\* get_users_by_role(role): requests.get may raise, response.json() of an ok
\* answer may raise, an answer that is not ok gives [].
get_users_by_role(r, role) ==
    IF r.exc THEN Raise(<<>>)
    ELSE IF response_ok(r)
         THEN (IF r.json
               THEN Return(Ids(SelectSeq(r.body, LAMBDA u : u.role = role)))
               ELSE Raise(<<>>))
    ELSE Return(<<>>)

\* if not admins: return; if not members: return;
\* if len(interested) < 2: return
EnoughUsers(adms, mbrs, intr) ==
    /\ adms # <<>>
    /\ mbrs # <<>>
    /\ ~(Len(intr) < 2)

\* The ids the server gives to the relationships and to the discipleship
\* requests it creates.
RelationshipIds == {61}
RequestIds == {71, 72}

\* The JSON of an answer to a creation or to an update: a dict with an id, or
\* a dict without one.
NoBody == [id |-> 0]
CreatedBodies(ids) == {[id |-> i] : i \in ids \cup {0}}

\* The server names each request it creates by an id of its own: the answer
\* to a creation carries no id or one that no earlier creation of this run
\* was answered with.
FreshRequestIds ==
    RequestIds \ {log[i].id : i \in {j \in 1..Len(log) : log[j].kind = "create_request"}}

\* response.json().get('id') after `if response.ok:`, None in the else branch
created_id(r) ==
    IF r.exc THEN Raise(0)
    ELSE IF response_ok(r) THEN (IF r.json THEN Return(r.body.id) ELSE Raise(0))
    ELSE Return(0)

\* The answers to a GET of a list of which the client prints lines only.
ListResponses == Responses({<<>>}, <<>>)

\* get_relationships(): response.json() if response.ok, else []
get_relationships(r) ==
    IF r.exc THEN Raise(<<>>)
    ELSE IF response_ok(r) THEN (IF r.json THEN Return(r.body) ELSE Raise(<<>>))
    ELSE Return(<<>>)

\* get_discipleship_requests(): response.json() if response.ok, else []
get_discipleship_requests(r) ==
    IF r.exc THEN Raise(<<>>)
    ELSE IF response_ok(r) THEN (IF r.json THEN Return(r.body) ELSE Raise(<<>>))
    ELSE Return(<<>>)

\* A variant of the test before the approval that lets every run through.
ApprovesUnconditionally(id) == TRUE

\* if request_id:
Approves(id) == Truthy(id)

\* The users of a run: fixed dicts in teste_discipulado_real.py, the first
\* ones found in teste_discipulado.py.
admin == IF script = "discipulado_real" THEN Reais.admin ELSE admins[1]

discipulador == members[1]

discipulador1 == Reais.discipulador1

discipulador2 == Reais.discipulador2

interessado1 ==
    IF script = "discipulado_real" THEN Reais.interessado1 ELSE interested[1]

\* interested[1] if len(interested) > 1 else interested[0]
interessado2 ==
    IF script = "discipulado_real" THEN Reais.interessado2
    ELSE IF Len(interested) > 1 THEN interested[2] ELSE interested[1]

interessado3 == interested[3]

\* response.text of a refusal, word by word.
ErrorTexts == {<<>>,
               <<"Ja", "existe", "solicitacao", "Pendente">>,
               <<"Request", "already", "EXISTS">>,
               <<"Internal", "Server", "Error">>}

\* str.lower() of a word
Lower(w) ==
    CASE w = "Ja" -> "ja"
      [] w = "Pendente" -> "pendente"
      [] w = "Request" -> "request"
      [] w = "EXISTS" -> "exists"
      [] w = "Internal" -> "internal"
      [] w = "Server" -> "server"
      [] w = "Error" -> "error"
      [] OTHER -> w

\* "pendente" in error_msg.lower() or "exists" in error_msg.lower()
AlreadyExists(error_msg) ==
    LET lower == {Lower(error_msg[i]) : i \in 1..Len(error_msg)} IN
    "pendente" \in lower \/ "exists" \in lower

\* No request of the list was taken over.
NoEntry == [id |-> 0, interestedId |-> 0, missionaryId |-> 0, status |-> ""]

\* What the server may list of one request: with an id or without, of
\* interessado2 or of interessado1, asked by discipulador2 or by
\* discipulador1, pending or approved.
EntryShapes ==
    [has_id : BOOLEAN,
     interestedId : {Reais.interessado2, Reais.interessado1},
     missionaryId : {Reais.discipulador2, Reais.discipulador1},
     status : {"pending", "approved"}]

\* GET /api/discipleship-requests: up to MaxListed requests.
RequestLists ==
    UNION {{[i \in 1..n |-> [id |-> IF f[i].has_id THEN 80 + i ELSE 0,
                             interestedId |-> f[i].interestedId,
                             missionaryId |-> f[i].missionaryId,
                             status |-> f[i].status]] :
              f \in [1..n -> EntryShapes]} : n \in 0..MaxListed}

\* req.get('interestedId') == interessado2['id'] and
\* req.get('status') == 'pending'
IsPendingFor(req, interested_id) ==
    req.interestedId = interested_id /\ req.status = "pending"

\* for req in requests_list: if ...: request_id = req.get('id'); break
\* else: request_id = None
FirstPendingFor(requests_list, interested_id) ==
    LET hits == {i \in 1..Len(requests_list) :
                    IsPendingFor(requests_list[i], interested_id)} IN
    IF hits = {} THEN NoEntry
    ELSE requests_list[CHOOSE i \in hits : \A j \in hits : i <= j]

\* The lookup of the existing request: requests.get may raise,
\* req_response.json() may raise, an answer that is not ok gives None.
find_existing(r, interested_id) ==
    IF r.exc THEN Raise(NoEntry)
    ELSE IF response_ok(r)
         THEN (IF r.json THEN Return(FirstPendingFor(r.body, interested_id))
               ELSE Raise(NoEntry))
    ELSE Return(NoEntry)

\* GET /api/relationships at the end of teste_discipulado_real.py: no
\* relationship, one of interessado1, one of interessado1 without an id, one
\* without an id of a user the test does not name.
RelationshipLists ==
    {<<>>,
     << [id |-> 91, interestedId |-> Reais.interessado1, status |-> "active"] >>,
     << [id |-> 0, interestedId |-> Reais.interessado1, status |-> "active"] >>,
     << [id |-> 0, interestedId |-> 1, status |-> "active"] >>}

\* recent = [r for r in relationships if r.get('interestedId') in [...]];
\* f"{rel.get('id'):<5} ... {rel.get('status'):<10}" raises on None
print_recent_raises(relationships) ==
    \E i \in 1..Len(relationships) :
        /\ relationships[i].interestedId \in {interessado1, interessado2}
        /\ relationships[i].id = 0 \/ relationships[i].status = ""

\* One POST or PUT of a discipulado script: the request it creates or
\* updates, its x-user-id header, and what came back.
LogEntry(kind, interested_id, missionary_id, target, xuser, r, error_msg) ==
    [kind |-> kind, interested |-> interested_id, missionary |-> missionary_id,
     target |-> target, xuser |-> xuser, exc |-> r.exc, ok |-> response_ok(r),
     id |-> IF response_ok(r) /\ r.json THEN r.body.id ELSE 0,
     refused_as_existing |-> ~r.exc /\ ~response_ok(r) /\ AlreadyExists(error_msg)]

\* The discipulado state of a run that has not touched it.
NoDiscipulado ==
    /\ admins = <<>>
    /\ interested = <<>>
    /\ relationship_id_1 = 0
    /\ request_id = 0
    /\ req_to_reject = [created |-> FALSE, id |-> 0]
    /\ existing = NoEntry
    /\ log = <<>>
    /\ summary = <<>>

----------------------------------------------------------------------------
(* Initial state: a script is started *)

Init ==
    /\ script \in Scripts
    /\ pc = CASE script \in ParqueScripts -> "get_members"
              [] script = "criar" -> "criar_igreja"
              [] OTHER -> "votar"
    /\ members = <<>>
    /\ voters = IF script = "votar" THEN votantes ELSE <<>>
    /\ cfg_voters = <<>>
    /\ candidates = IF script = "votar" THEN candidatos ELSE <<>>
    /\ config_id = IF script = "votar" THEN CONFIG_ID ELSE 0
    /\ election_id = 0
    /\ pos = 0
    /\ vi = 1
    /\ votos = 0
    /\ erros = 0
    /\ noms = [p \in 0..(Len(Cargos(script)) - 1) |-> 0]
    /\ votes = [p \in 0..(Len(Cargos(script)) - 1) |-> 0]
    /\ round = [p \in 0..(Len(Cargos(script)) - 1) |-> "pending"]
    /\ adv = [position |-> 0, ok |-> FALSE]
    /\ sent = [e \in Endpoints |-> 0]
    /\ last = NoRequest
    /\ shown = <<>>
    /\ outstanding = 0
    /\ NoDiscipulado

----------------------------------------------------------------------------
(* main of teste_eleicao_parque.py and teste_eleicao_parque_v2.py, steps 1-3 *)

\* members = get_members(); if len(members) < 5: return
\* (the server lists up to maxn members of the church)
FetchMembers(maxn) ==
    /\ script \in ParqueScripts
    /\ pc = "get_members"
    /\ \E r \in Responses({UsersBody(n) : n \in 0..maxn}, <<>>) :
         LET res == get_members(r) IN
         /\ sent' = Inc(sent, "users")
         /\ last' = Request("users", get_headers(ADMIN_USER_ID), 0, 0, 0, "",
                            [r EXCEPT !.body = NoDict], IsOK(r))
         /\ members' = res.val
         /\ pc' = IF res.raised THEN "crashed"
                  ELSE IF InsufficientMembers(res.val) THEN "aborted_members"
                  ELSE "create_config"
    /\ outstanding' = 0
    /\ UNCHANGED <<discipulado, shown, script, voters, cfg_voters, candidates, config_id, election_id,
                   pos, vi, votos, erros, noms, votes, round, adv>>

MainGetMembers == FetchMembers(MaxMembers)

\* The same step against a server with more members than the voters wanted.
MainGetManyMembers == FetchMembers(MaxManyMembers)

\* config_id, voters = create_election_config(members); if not config_id: return
MainCreateConfig ==
    /\ script \in ParqueScripts
    /\ pc = "create_config"
    /\ \E sample \in random_sample(members, NumVoters(members)),
          r \in Responses(ConfigBodies, NoDict) :
         LET res == create_election_config(sample, r) IN
         /\ sent' = Inc(sent, "config")
         /\ last' = Request("config", get_headers(ADMIN_USER_ID), 0, 0, 0, "", r, IsOK(r))
         /\ cfg_voters' = sample
         /\ config_id' = res.val.config_id
         /\ voters' = res.val.voters
         /\ pc' = IF res.raised THEN "crashed"
                  ELSE IF ~Truthy(res.val.config_id) THEN "aborted_config"
                  ELSE "start_election"
    /\ outstanding' = 0
    /\ UNCHANGED <<discipulado, shown, script, members, candidates, election_id, pos, vi, votos, erros,
                   noms, votes, round, adv>>

\* election_id = start_election(config_id); if not election_id: return
MainStartElection ==
    /\ script \in ParqueScripts
    /\ pc = "start_election"
    /\ \E r \in Responses(StartBodies, NoDict) :
         LET res == start_election(r) IN
         /\ sent' = Inc(sent, "start")
         /\ last' = Request("start", get_headers(ADMIN_USER_ID), 0, 0, 0, "", r, IsOK(r))
         /\ election_id' = res.val
         /\ pc' = IF res.raised THEN "crashed"
                  ELSE IF ~Truthy(res.val) THEN "aborted_start"
                  ELSE "nominate"
    /\ outstanding' = 0
    /\ UNCHANGED <<discipulado, shown, script, members, voters, cfg_voters, candidates, config_id,
                   pos, vi, votos, erros, noms, votes, round, adv>>

----------------------------------------------------------------------------
(* process_position of teste_eleicao_parque_v2.py *)

\* A variant of the loop that calls process_position for the same position
\* again.
AfterPositionRepeated(p) ==
    IF HasNext(p + 1, POSITIONS)
    THEN [pc |-> "nominate", pos |-> p]
    ELSE [pc |-> "show_results", pos |-> p]

\* The for loop of main: the next call of process_position, or show_results.
AfterPosition(p) ==
    IF HasNext(p + 1, POSITIONS)
    THEN [pc |-> "nominate", pos |-> p + 1]
    ELSE [pc |-> "show_results", pos |-> p]

\* for voter in voters: ... submit_nomination(config_id, voter['id'], candidate['id'])
V2Nominate ==
    /\ script = "parque_v2"
    /\ pc = "nominate"
    /\ LET voter == voters[vi] IN
       \E candidate \in random_choice(NominationPool(members, voter)),
          r \in Responses(PlainBodies, NoDict) :
         LET res == submit_v2(r) IN
         /\ sent' = Inc(sent, "nomination")
         /\ noms' = Inc(noms, pos)
         /\ last' = Request("nomination", get_headers(voter), voter, candidate, pos,
                            "nomination", r, res.val)
         /\ IF res.raised THEN pc' = "crashed" /\ vi' = vi
            ELSE IF MoreVoters(vi, voters) THEN pc' = pc /\ vi' = vi + 1
            ELSE pc' = "advance_voting" /\ vi' = 1
    /\ outstanding' = 0
    /\ UNCHANGED <<discipulado, shown, script, members, voters, cfg_voters, candidates, config_id,
                   election_id, pos, votos, erros, votes, round, adv>>

\* success, result = advance_phase(config_id, "voting"); if not success: return
V2AdvanceVoting ==
    /\ script = "parque_v2"
    /\ pc = "advance_voting"
    /\ \E r \in Responses(PlainBodies, NoDict) :
         LET res == advance(r)
             nxt == AfterPosition(pos) IN
         /\ sent' = Inc(sent, "advance_phase")
         /\ last' = Request("advance_phase", get_headers(ADMIN_USER_ID), 0, 0, pos,
                            "voting", r, res.val)
         /\ IF res.raised THEN pc' = "crashed" /\ pos' = pos /\ round' = round
            ELSE IF res.val THEN pc' = "fetch" /\ pos' = pos /\ round' = round
            ELSE /\ pc' = nxt.pc
                 /\ pos' = nxt.pos
                 /\ round' = [round EXCEPT ![pos] = "cut"]
    /\ outstanding' = 0
    /\ UNCHANGED <<discipulado, shown, script, members, voters, cfg_voters, candidates, config_id,
                   election_id, vi, votos, erros, noms, votes, adv>>

\* status = get_election_status(config_id, voters[0]['id']); if not status: return
\* candidates = status.get('candidates', []); if not candidates: return
V2FetchCandidates ==
    /\ script = "parque_v2"
    /\ pc = "fetch"
    /\ \E r \in Responses(StatusBodies, NoDict) :
         LET res == get_election_status(r)
             nxt == AfterPosition(pos) IN
         /\ sent' = Inc(sent, "voting")
         /\ last' = Request("voting", get_headers(voters[1]), voters[1], 0, pos, "",
                            r, ~res.raised /\ ~res.val.empty)
         /\ IF res.raised
            THEN pc' = "crashed" /\ pos' = pos /\ round' = round
                 /\ candidates' = candidates
            ELSE IF res.val.empty
            THEN /\ pc' = nxt.pc
                 /\ pos' = nxt.pos
                 /\ round' = [round EXCEPT ![pos] = "cut"]
                 /\ candidates' = <<>>
            ELSE IF res.val.candidates = <<>>
            THEN /\ pc' = nxt.pc
                 /\ pos' = nxt.pos
                 /\ round' = [round EXCEPT ![pos] = "cut"]
                 /\ candidates' = <<>>
            ELSE /\ pc' = "vote"
                 /\ pos' = pos
                 /\ round' = [round EXCEPT ![pos] = "voted"]
                 /\ candidates' = res.val.candidates
    /\ outstanding' = 0
    /\ UNCHANGED <<discipulado, shown, script, members, voters, cfg_voters, config_id, election_id,
                   vi, votos, erros, noms, votes, adv>>

\* for voter in voters: candidate = random.choice(candidates[:10]); submit_vote(...)
V2Vote ==
    /\ script = "parque_v2"
    /\ pc = "vote"
    /\ LET voter == voters[vi] IN
       \E candidate \in random_choice(VotePoolV2(candidates)),
          r \in Responses(PlainBodies, NoDict) :
         LET res == submit_v2(r) IN
         /\ sent' = Inc(sent, "vote")
         /\ votes' = Inc(votes, pos)
         /\ last' = Request("vote", get_headers(voter), voter, candidate, pos,
                            "voting", r, res.val)
         /\ IF res.raised THEN pc' = "crashed" /\ vi' = vi
            ELSE IF MoreVoters(vi, voters) THEN pc' = pc /\ vi' = vi + 1
            ELSE pc' = "close" /\ vi' = 1
    /\ outstanding' = 0
    /\ UNCHANGED <<discipulado, shown, script, members, voters, cfg_voters, candidates, config_id,
                   election_id, pos, votos, erros, noms, round, adv>>

\* A variant of the test that takes no position for the last one until the
\* index has left the list.
IsLastPositionOffByOne(p) == ~(p < Len(POSITIONS))

\* if position_index < len(POSITIONS) - 1: advance_position(config_id, position_index + 1)
\* else: advance_phase(config_id, "completed")
IsLastPosition(p) == ~(p < Len(POSITIONS) - 1)

V2Close ==
    /\ script = "parque_v2"
    /\ pc = "close"
    /\ \E r \in Responses(PlainBodies, NoDict) :
         LET res == advance(r)
             nxt == AfterPosition(pos) IN
         /\ IF IsLastPosition(pos)
            THEN /\ sent' = Inc(sent, "advance_phase")
                 /\ last' = Request("advance_phase", get_headers(ADMIN_USER_ID), 0, 0,
                                    pos, "completed", r, res.val)
                 /\ adv' = adv
            ELSE /\ sent' = Inc(sent, "advance_position")
                 /\ last' = Request("advance_position", get_headers(ADMIN_USER_ID), 0, 0,
                                    pos + 1, "", r, res.val)
                 /\ adv' = [position |-> pos + 1, ok |-> res.val]
         /\ IF res.raised THEN pc' = "crashed" /\ pos' = pos /\ candidates' = candidates
            ELSE pc' = nxt.pc /\ pos' = nxt.pos /\ candidates' = <<>>
    /\ outstanding' = 0
    /\ UNCHANGED <<discipulado, shown, script, members, voters, cfg_voters, config_id,
                   election_id, vi, votos, erros, noms, votes, round>>

\* show_results(config_id): GET /api/elections/manage/{config_id}; end of main
V2ShowResults ==
    /\ script = "parque_v2"
    /\ pc = "show_results"
    /\ \E r \in Responses(PlainBodies, NoDict) :
         LET res == show_results(r) IN
         /\ sent' = Inc(sent, "manage")
         /\ last' = Request("manage", get_headers(ADMIN_USER_ID), 0, 0, pos, "", r,
                            res.val)
         /\ pc' = IF res.raised THEN "crashed" ELSE "done"
    /\ outstanding' = 0
    /\ UNCHANGED <<discipulado, shown, script, members, voters, cfg_voters, candidates, config_id,
                   election_id, pos, vi, votos, erros, noms, votes, round, adv>>

----------------------------------------------------------------------------
(* simulate_nominations, simulate_voting and show_results of                *)
(* teste_eleicao_parque.py                                                  *)

\* simulate_nominations, inner loop: if not candidates: continue;
\* submit_nomination(config_id, voter['id'], candidate['id'], position)
V1Nominate ==
    /\ script = "parque"
    /\ pc = "nominate"
    /\ LET voter == voters[vi]
           pool == NominationPool(members, voter)
           more == IF MoreVoters(vi, voters)
                   THEN [pc |-> pc, vi |-> vi + 1]
                   ELSE [pc |-> "advance_nomination", vi |-> 1] IN
       IF pool = <<>>
       THEN /\ pc' = more.pc
            /\ vi' = more.vi
            /\ UNCHANGED <<sent, noms, last>>
       ELSE \E candidate \in random_choice(pool), r \in Responses(PlainBodies, NoDict) :
              LET res == submit_v1(r) IN
              /\ sent' = Inc(sent, "nomination")
              /\ noms' = Inc(noms, pos)
              /\ last' = Request("nomination", get_headers(voter), voter, candidate,
                                 pos, "nomination", r, res.val)
              /\ IF res.raised THEN pc' = "crashed" /\ vi' = vi
                 ELSE pc' = more.pc /\ vi' = more.vi
    /\ outstanding' = 0
    /\ UNCHANGED <<discipulado, shown, script, members, voters, cfg_voters, candidates, config_id,
                   election_id, pos, votos, erros, votes, round, adv>>

\* simulate_nominations, end of the outer loop body: advance_phase(config_id);
\* a failure is printed and the loop goes on.  After the last position main
\* calls simulate_voting.
V1AdvanceAfterNominations ==
    /\ script = "parque"
    /\ pc = "advance_nomination"
    /\ \E r \in Responses(PlainBodies, NoDict) :
         LET res == advance(r) IN
         /\ sent' = Inc(sent, "advance_phase")
         /\ last' = Request("advance_phase", get_headers(ADMIN_USER_ID), 0, 0, pos, "",
                            r, res.val)
         /\ IF res.raised THEN pc' = "crashed" /\ pos' = pos
            ELSE IF HasNext(pos + 1, POSITIONS) THEN pc' = "nominate" /\ pos' = pos + 1
            ELSE pc' = "fetch" /\ pos' = 0
    /\ outstanding' = 0
    /\ UNCHANGED <<discipulado, shown, script, members, voters, cfg_voters, candidates, config_id,
                   election_id, vi, votos, erros, noms, votes, round, adv>>

\* The outer loop of simulate_voting: the next position, or show_results.
AfterVotingPosition(p) ==
    IF HasNext(p + 1, POSITIONS)
    THEN [pc |-> "fetch", pos |-> p + 1]
    ELSE [pc |-> "show_results", pos |-> p]

\* simulate_voting: status = get_election_status(config_id, voters[0]['id']);
\* if not status: continue; candidates = status.get('candidates', []);
\* if not candidates: continue
V1FetchCandidates ==
    /\ script = "parque"
    /\ pc = "fetch"
    /\ \E r \in Responses(StatusBodies, NoDict) :
         LET res == get_election_status(r)
             nxt == AfterVotingPosition(pos) IN
         /\ sent' = Inc(sent, "voting")
         /\ last' = Request("voting", get_headers(voters[1]), voters[1], 0, pos, "",
                            r, ~res.raised /\ ~res.val.empty)
         /\ IF res.raised
            THEN pc' = "crashed" /\ pos' = pos /\ round' = round
                 /\ candidates' = candidates
            ELSE IF res.val.empty \/ res.val.candidates = <<>>
            THEN /\ pc' = nxt.pc
                 /\ pos' = nxt.pos
                 /\ round' = [round EXCEPT ![pos] = "cut"]
                 /\ candidates' = <<>>
            ELSE /\ pc' = "vote"
                 /\ pos' = pos
                 /\ round' = [round EXCEPT ![pos] = "voted"]
                 /\ candidates' = res.val.candidates
    /\ outstanding' = 0
    /\ UNCHANGED <<discipulado, shown, script, members, voters, cfg_voters, config_id, election_id,
                   vi, votos, erros, noms, votes, adv>>

\* simulate_voting, inner loop: candidate = random.choice(candidates);
\* submit_vote(config_id, voter['id'], candidate['id'], position)
V1Vote ==
    /\ script = "parque"
    /\ pc = "vote"
    /\ LET voter == voters[vi] IN
       \E candidate \in random_choice(VotePoolV1(candidates)),
          r \in Responses(PlainBodies, NoDict) :
         LET res == submit_v1(r) IN
         /\ sent' = Inc(sent, "vote")
         /\ votes' = Inc(votes, pos)
         /\ last' = Request("vote", get_headers(voter), voter, candidate, pos,
                            "voting", r, res.val)
         /\ IF res.raised THEN pc' = "crashed" /\ vi' = vi
            ELSE IF MoreVoters(vi, voters) THEN pc' = pc /\ vi' = vi + 1
            ELSE pc' = "advance_voting" /\ vi' = 1
    /\ outstanding' = 0
    /\ UNCHANGED <<discipulado, shown, script, members, voters, cfg_voters, candidates, config_id,
                   election_id, pos, votos, erros, noms, round, adv>>

\* simulate_voting, end of the outer loop body: advance_phase(config_id)
V1AdvanceAfterVoting ==
    /\ script = "parque"
    /\ pc = "advance_voting"
    /\ \E r \in Responses(PlainBodies, NoDict) :
         LET res == advance(r)
             nxt == AfterVotingPosition(pos) IN
         /\ sent' = Inc(sent, "advance_phase")
         /\ last' = Request("advance_phase", get_headers(ADMIN_USER_ID), 0, 0, pos, "",
                            r, res.val)
         /\ IF res.raised THEN pc' = "crashed" /\ pos' = pos /\ candidates' = candidates
            ELSE pc' = nxt.pc /\ pos' = nxt.pos /\ candidates' = <<>>
    /\ outstanding' = 0
    /\ UNCHANGED <<discipulado, shown, script, members, voters, cfg_voters, config_id, election_id,
                   vi, votos, erros, noms, votes, round, adv>>

\* show_results(config_id): GET /api/elections/results/{config_id}; end of main
V1ShowResults ==
    /\ script = "parque"
    /\ pc = "show_results"
    /\ \E r \in Responses(ResultsBodies, NoResults) :
         LET res == show_results_v1(r) IN
         /\ sent' = Inc(sent, "results")
         /\ last' = Request("results", get_headers(ADMIN_USER_ID), 0, 0, pos, "",
                            [r EXCEPT !.body = NoDict], ~res.raised /\ IsOK(r))
         /\ shown' = res.val
         /\ pc' = IF res.raised THEN "crashed" ELSE "done"
    /\ outstanding' = 0
    /\ UNCHANGED <<discipulado, script, members, voters, cfg_voters, candidates, config_id,
                   election_id, pos, vi, votos, erros, noms, votes, round, adv>>

----------------------------------------------------------------------------
(* main of criar_eleicao_teste.py *)

\* igreja = criar_igreja()
CriarIgreja ==
    /\ script = "criar"
    /\ pc = "criar_igreja"
    /\ \E r \in Responses(PlainBodies, NoDict) :
         /\ sent' = Inc(sent, "churches")
         /\ last' = Request("churches", NoHeader, 0, 0, 0, "", r,
                            ~criar_igreja(r).empty)
         /\ pc' = "buscar_usuarios"
    /\ outstanding' = 0
    /\ UNCHANGED <<discipulado, shown, script, members, voters, cfg_voters, candidates, config_id,
                   election_id, pos, vi, votos, erros, noms, votes, round, adv>>

\* usuarios = buscar_usuarios(); if len(usuarios) < 10: return
BuscarUsuarios ==
    /\ script = "criar"
    /\ pc = "buscar_usuarios"
    /\ \E r \in Responses({UsuariosBody(n) : n \in 0..MaxUsuarios}, <<>>) :
         LET usuarios == buscar_usuarios(r) IN
         /\ sent' = Inc(sent, "users")
         /\ last' = Request("users", NoHeader, 0, 0, 0, "",
                            [r EXCEPT !.body = NoDict], ~r.exc /\ r.json)
         /\ members' = usuarios
         /\ pc' = IF PoucosUsuarios(usuarios) THEN "aborted_members"
                  ELSE "criar_configuracao"
    /\ outstanding' = 0
    /\ UNCHANGED <<discipulado, shown, script, voters, cfg_voters, candidates, config_id, election_id,
                   pos, vi, votos, erros, noms, votes, round, adv>>

\* votantes = random.sample(usuarios, 10);
\* config = criar_configuracao_eleicao(church_id, votantes_ids);
\* if not config: return; config_id = config.get('id')
CriarConfiguracao ==
    /\ script = "criar"
    /\ pc = "criar_configuracao"
    /\ \E sample \in random_sample(members, NUM_VOTANTES),
          r \in Responses(ConfigBodies, NoDict) :
         LET config == json_if_200(r) IN
         /\ sent' = Inc(sent, "config")
         /\ last' = Request("config", NoHeader, 0, 0, 0, "", r, ~config.empty)
         /\ voters' = sample
         /\ cfg_voters' = sample
         /\ config_id' = config.id
         /\ pc' = IF config.empty THEN "aborted_config" ELSE "iniciar_eleicao"
    /\ outstanding' = 0
    /\ UNCHANGED <<discipulado, shown, script, members, candidates, election_id, pos, vi, votos, erros,
                   noms, votes, round, adv>>

\* Variant: the results are fetched whatever the number of votes registered.
AfterVotacaoUnguarded(v) == "buscar_resultados"

\* After realizar_votacao: if votos > 0: buscar_resultados(election_id)
AfterVotacao(v) == IF v > 0 THEN "buscar_resultados" ELSE "done"

\* eleicao = iniciar_eleicao(config_id); if not eleicao: return;
\* election_id = ...; candidatos = random.sample(candidatos_pool, min(20, ...));
\* if election_id: realizar_votacao(election_id, votantes_ids, candidatos)
IniciarEleicao ==
    /\ script = "criar"
    /\ pc = "iniciar_eleicao"
    /\ \E r \in Responses(StartBodies, NoDict) :
         LET eleicao == json_if_200(r)
             pool == CandidatosPool(members, voters) IN
         /\ sent' = Inc(sent, "start")
         /\ last' = Request("start", NoHeader, 0, 0, 0, "", r, ~eleicao.empty)
         /\ IF eleicao.empty
            THEN /\ pc' = "aborted_start"
                 /\ UNCHANGED <<election_id, candidates>>
            ELSE /\ election_id' = CriarElectionId(eleicao)
                 /\ candidates' \in random_sample(pool, min(MAX_CANDIDATOS, Len(pool)))
                 /\ pc' = IF Truthy(election_id') THEN "votacao" ELSE "done"
    /\ outstanding' = 0
    /\ UNCHANGED <<discipulado, shown, script, members, voters, cfg_voters, config_id, pos, vi, votos,
                   erros, noms, votes, round, adv>>

\* realizar_votacao, one turn of the inner loop:
\* candidatos_disponiveis = [c for c in candidatos if c['id'] != votante_id];
\* if not candidatos_disponiveis: continue;
\* sucesso = registrar_voto(...); if sucesso: votos_registrados += 1
RegistrarVoto ==
    /\ script = "criar"
    /\ pc = "votacao"
    /\ LET votante_id == voters[vi]
           disponiveis == Without(candidates, votante_id)
           nvi == IF HasNext(vi, voters) THEN vi + 1 ELSE 1
           npos == IF HasNext(vi, voters) THEN pos ELSE pos + 1
           over == ~HasNext(vi, voters) /\ ~HasNext(pos + 1, CARGOS) IN
       /\ vi' = nvi
       /\ pos' = IF over THEN pos ELSE npos
       /\ IF disponiveis = <<>>
          THEN /\ pc' = IF over THEN AfterVotacao(votos) ELSE pc
               /\ UNCHANGED <<sent, noms, last, votos>>
          ELSE \E candidato \in random_choice(disponiveis), r \in StatusResponses :
                 LET sucesso == registrar_voto(r) IN
                 /\ sent' = Inc(sent, "nomination")
                 /\ noms' = Inc(noms, pos)
                 /\ last' = Request("nomination", NoHeader, votante_id, candidato, pos,
                                    "nomination", r, sucesso)
                 /\ votos' = IF sucesso THEN votos + 1 ELSE votos
                 /\ pc' = IF over THEN AfterVotacao(votos') ELSE pc
    /\ outstanding' = 0
    /\ UNCHANGED <<discipulado, shown, script, members, voters, cfg_voters, candidates, config_id,
                   election_id, erros, votes, round, adv>>

\* resultados = buscar_resultados(election_id); end of main
BuscarResultados ==
    /\ script = "criar"
    /\ pc = "buscar_resultados"
    /\ \E r \in Responses(PlainBodies, NoDict) :
         /\ sent' = Inc(sent, "results")
         /\ last' = Request("results", NoHeader, 0, 0, pos, "", r, IsOK(r) /\ r.json)
         /\ pc' = "done"
    /\ outstanding' = 0
    /\ UNCHANGED <<discipulado, shown, script, members, voters, cfg_voters, candidates, config_id,
                   election_id, pos, vi, votos, erros, noms, votes, round, adv>>

----------------------------------------------------------------------------
(* votar.py *)

\* One turn of the loop over zip(votantes, candidatos): POST the nomination;
\* 200 counts in votos_ok, any other status or an exception in votos_erro.
VotarLoop ==
    /\ script = "votar"
    /\ pc = "votar"
    /\ LET votante == voters[vi]
           candidato == candidates[vi] IN
       \E r \in StatusResponses :
         LET ok == ~r.exc /\ IsOK(r) IN
         /\ sent' = Inc(sent, "nomination")
         /\ noms' = Inc(noms, pos)
         /\ last' = Request("nomination", Str(votante), votante, candidato, pos,
                            "nomination", r, ok)
         /\ votos' = IF ok THEN votos + 1 ELSE votos
         /\ erros' = IF ok THEN erros ELSE erros + 1
         /\ vi' = vi + 1
         /\ pc' = IF HasNext(vi, Take(voters, Len(candidates))) THEN pc ELSE "done"
    /\ outstanding' = 0
    /\ UNCHANGED <<discipulado, shown, script, members, voters, cfg_voters, candidates, config_id,
                   election_id, pos, votes, round, adv>>

----------------------------------------------------------------------------
(* The call of requests.get / requests.post *)

\* main has a next request to send
Running == pc \notin {"done", "crashed", "aborted_members", "aborted_config",
                      "aborted_start"}

\* A variant of the call that does not wait for the answer of the previous one.
NonBlocking(n) == n < 2

\* requests.get / requests.post is a blocking call: the statement that sends
\* the next request runs only after the call before it has returned or raised.
Blocking(n) == n = 0

\* The request leaves the client; the thread waits in the call.
SendRequest ==
    /\ Running
    /\ Blocking(outstanding)
    /\ outstanding' = outstanding + 1
    /\ UNCHANGED <<discipulado, script, pc, members, voters, cfg_voters, candidates, config_id,
                   election_id, pos, vi, votos, erros, noms, votes, round, adv,
                   sent, last, shown>>

----------------------------------------------------------------------------

Next ==
    \/ MainGetMembers
    \/ MainCreateConfig
    \/ MainStartElection
    \/ V2Nominate
    \/ V2AdvanceVoting
    \/ V2FetchCandidates
    \/ V2Vote
    \/ V2Close
    \/ V2ShowResults
    \/ V1Nominate
    \/ V1AdvanceAfterNominations
    \/ V1FetchCandidates
    \/ V1Vote
    \/ V1AdvanceAfterVoting
    \/ V1ShowResults
    \/ CriarIgreja
    \/ BuscarUsuarios
    \/ CriarConfiguracao
    \/ IniciarEleicao
    \/ RegistrarVoto
    \/ BuscarResultados
    \/ VotarLoop

Spec == Init /\ [][Next]_vars

\* The same runs of the Parque drivers with the call of requests.get /
\* requests.post in two steps: the request leaves, and the call returns (or
\* raises) and the code that follows it runs.
InitWire == Init /\ script \in ParqueScripts

AwaitingAnswer == outstanding > 0

NextWire ==
    \/ SendRequest
    \/ AwaitingAnswer /\ MainGetMembers
    \/ AwaitingAnswer /\ MainCreateConfig
    \/ AwaitingAnswer /\ MainStartElection
    \/ AwaitingAnswer /\ V2Nominate
    \/ AwaitingAnswer /\ V2AdvanceVoting
    \/ AwaitingAnswer /\ V2FetchCandidates
    \/ AwaitingAnswer /\ V2Vote
    \/ AwaitingAnswer /\ V2Close
    \/ AwaitingAnswer /\ V2ShowResults
    \/ AwaitingAnswer /\ V1Nominate
    \/ AwaitingAnswer /\ V1AdvanceAfterNominations
    \/ AwaitingAnswer /\ V1FetchCandidates
    \/ AwaitingAnswer /\ V1Vote
    \/ AwaitingAnswer /\ V1AdvanceAfterVoting
    \/ AwaitingAnswer /\ V1ShowResults

SpecWire == InitWire /\ [][NextWire]_vars

\* A script is a sequential program: as long as it has a next statement the
\* interpreter executes it, and every request it sends returns or raises.
FairSpec == Spec /\ WF_vars(Next)

----------------------------------------------------------------------------
(* main of teste_discipulado.py *)

\* Where main is while it fetches the users of a role.
GetUsersPc == [superadmin |-> "get_superadmin", pastor |-> "get_pastor",
               admin |-> "get_admin", member |-> "get_member",
               interested |-> "get_interested"]

\* One call of get_users_by_role; after the last one the three tests of main.
GetUsersByRole ==
    /\ script = "discipulado"
    /\ \E k \in {i \in 1..Len(ROLES) : pc = GetUsersPc[ROLES[i]]} :
       \E r \in UsersResponses :
         LET role == ROLES[k]
             users == get_users_by_role(r, role) IN
         /\ IF users.raised
            THEN /\ pc' = "crashed"
                 /\ UNCHANGED <<admins, members, interested>>
            ELSE /\ admins' = IF role \in {"superadmin", "pastor", "admin"}
                              THEN admins \o users.val
                              ELSE admins
                 /\ members' = IF role = "member" THEN users.val ELSE members
                 /\ interested' = IF role = "interested" THEN users.val
                                  ELSE interested
                 /\ pc' = IF k < Len(ROLES) THEN GetUsersPc[ROLES[k + 1]]
                          ELSE IF EnoughUsers(admins', members', interested')
                               THEN "create_relationship"
                          ELSE "aborted_users"
    /\ UNCHANGED <<script, election_vars, relationship_id_1, request_id,
                   req_to_reject, existing, log, summary>>

\* response = create_relationship_admin(interessado1['id'],
\*     discipulador['id'], admin['id']); relationship_id_1 = ...
CreateRelationshipAdmin ==
    /\ script = "discipulado"
    /\ pc = "create_relationship"
    /\ \E r \in Responses(CreatedBodies(RelationshipIds), NoBody) :
         LET created == created_id(r) IN
         /\ log' = Append(log, LogEntry("create_relationship", interessado1,
                                        discipulador, 0, Str(admin), r, <<>>))
         /\ relationship_id_1' = created.val
         /\ pc' = IF created.raised THEN "crashed" ELSE "get_relationships_3"
    /\ UNCHANGED <<script, members, election_vars, admins, interested,
                   request_id, req_to_reject, existing, summary>>

\* What follows a call of get_relationships: the first request, the
\* rejection test under `if len(interested) > 2:`, or the summary.
AfterGetRelationships(p) ==
    CASE p = "get_relationships_3" -> "create_request"
      [] p = "get_relationships_7" ->
            IF Len(interested) > 2 THEN "create_request_to_reject"
            ELSE "get_relationships_resumo"
      [] OTHER -> "get_requests_resumo"

\* relationships = get_relationships(), steps 3 and 7 and the summary
GetRelationships ==
    /\ script = "discipulado"
    /\ pc \in {"get_relationships_3", "get_relationships_7",
               "get_relationships_resumo"}
    /\ \E r \in ListResponses :
         pc' = IF get_relationships(r).raised THEN "crashed"
               ELSE AfterGetRelationships(pc)
    /\ UNCHANGED <<script, members, election_vars, discipulado>>

\* response = create_discipleship_request(interessado2['id'],
\*     discipulador['id']); request_id = ...
CreateDiscipleshipRequest ==
    /\ script = "discipulado"
    /\ pc = "create_request"
    /\ \E r \in Responses(CreatedBodies(FreshRequestIds), NoBody) :
         LET created == created_id(r) IN
         /\ log' = Append(log, LogEntry("create_request", interessado2,
                                        discipulador, 0, Str(discipulador), r,
                                        <<>>))
         /\ request_id' = created.val
         /\ pc' = IF created.raised THEN "crashed" ELSE "get_requests_5"
    /\ UNCHANGED <<script, members, election_vars, admins, interested,
                   relationship_id_1, req_to_reject, existing, summary>>

\* requests_list = get_discipleship_requests(): step 5, followed by
\* `if request_id:`, and the summary, followed by the last lines of main
GetDiscipleshipRequests ==
    /\ script = "discipulado"
    /\ pc \in {"get_requests_5", "get_requests_resumo"}
    /\ \E r \in ListResponses :
         IF get_discipleship_requests(r).raised
         THEN pc' = "crashed" /\ UNCHANGED summary
         ELSE IF pc = "get_requests_5"
         THEN /\ pc' = IF Approves(request_id) THEN "approve"
                       ELSE "get_relationships_7"
              /\ UNCHANGED summary
         ELSE /\ pc' = "done"
              /\ summary' = <<"concluido">>
    /\ UNCHANGED <<script, members, election_vars, admins, interested,
                   relationship_id_1, request_id, req_to_reject, existing, log>>

\* response = approve_discipleship_request(request_id, admin['id']);
\* if response.ok: approved = response.json()
ApproveDiscipleshipRequest ==
    /\ script = "discipulado"
    /\ pc = "approve"
    /\ \E r \in Responses({NoBody}, NoBody) :
         /\ log' = Append(log, LogEntry("approve", 0, 0, request_id, Str(admin),
                                        r, <<>>))
         /\ pc' = IF created_id(r).raised THEN "crashed"
                  ELSE "get_relationships_7"
    /\ UNCHANGED <<script, members, election_vars, admins, interested,
                   relationship_id_1, request_id, req_to_reject, existing,
                   summary>>

\* response = create_discipleship_request(interessado3['id'],
\*     discipulador['id']); if response.ok: req_to_reject = response.json()
CreateRequestToReject ==
    /\ script = "discipulado"
    /\ pc = "create_request_to_reject"
    /\ \E r \in Responses(CreatedBodies(FreshRequestIds), NoBody) :
         LET created == created_id(r) IN
         /\ log' = Append(log, LogEntry("create_request", interessado3,
                                        discipulador, 0, Str(discipulador), r,
                                        <<>>))
         /\ req_to_reject' = IF response_ok(r) /\ r.json
                             THEN [created |-> TRUE, id |-> created.val]
                             ELSE req_to_reject
         /\ pc' = IF created.raised THEN "crashed"
                  ELSE IF response_ok(r) THEN "reject"
                  ELSE "get_relationships_resumo"
    /\ UNCHANGED <<script, members, election_vars, admins, interested,
                   relationship_id_1, request_id, existing, summary>>

\* response = reject_discipleship_request(req_to_reject.get('id'),
\*     admin['id'], ...)
RejectDiscipleshipRequest ==
    /\ script = "discipulado"
    /\ pc = "reject"
    /\ \E r \in Responses({NoBody}, NoBody) :
         /\ log' = Append(log, LogEntry("reject", 0, 0, req_to_reject.id,
                                        Str(admin), r, <<>>))
         /\ pc' = IF r.exc THEN "crashed" ELSE "get_relationships_resumo"
    /\ UNCHANGED <<script, members, election_vars, admins, interested,
                   relationship_id_1, request_id, req_to_reject, existing,
                   summary>>

----------------------------------------------------------------------------
(* main of teste_discipulado_real.py *)

\* requests.post(.../api/relationships) for discipulador1 and interessado1;
\* rel_id_1 = relationship.get('id') or None
RealCreateRelationship ==
    /\ script = "discipulado_real"
    /\ pc = "create_relationship"
    /\ \E r \in Responses(CreatedBodies(RelationshipIds), NoBody) :
         LET created == created_id(r) IN
         /\ log' = Append(log, LogEntry("create_relationship", interessado1,
                                        discipulador1, 0, Str(admin), r, <<>>))
         /\ relationship_id_1' = created.val
         /\ pc' = IF created.raised THEN "crashed" ELSE "create_request"
    /\ UNCHANGED <<script, members, election_vars, admins, interested,
                   request_id, req_to_reject, existing, summary>>

\* requests.post(.../api/discipleship-requests) for discipulador2 and
\* interessado2; request_id = request_data.get('id'), or the lookup of the
\* existing request, or None
RealCreateRequest ==
    /\ script = "discipulado_real"
    /\ pc = "create_request"
    /\ \E r \in Responses(CreatedBodies(RequestIds), NoBody),
          error_msg \in ErrorTexts :
         LET created == created_id(r) IN
         /\ (r.exc \/ response_ok(r)) => error_msg = <<>>
         /\ log' = Append(log, LogEntry("create_request", interessado2,
                                        discipulador2, 0, Str(discipulador2), r,
                                        error_msg))
         /\ request_id' = created.val
         /\ pc' = IF created.raised THEN "crashed"
                  ELSE IF ~response_ok(r) /\ AlreadyExists(error_msg)
                       THEN "lookup_existing"
                  ELSE "get_pending"
    /\ UNCHANGED <<script, members, election_vars, admins, interested,
                   relationship_id_1, req_to_reject, existing, summary>>

\* req_response = requests.get(.../api/discipleship-requests) and the
\* for/else that takes the id of the first pending request of interessado2
RealLookupExisting ==
    /\ script = "discipulado_real"
    /\ pc = "lookup_existing"
    /\ \E r \in Responses(RequestLists, <<>>) :
         LET found == find_existing(r, interessado2) IN
         /\ existing' = found.val
         /\ request_id' = found.val.id
         /\ pc' = IF found.raised THEN "crashed" ELSE "get_pending"
    /\ UNCHANGED <<script, members, election_vars, admins, interested,
                   relationship_id_1, req_to_reject, log, summary>>

\* Step 4: requests.get(.../api/discipleship-requests), then `if request_id:`
RealGetPending ==
    /\ script = "discipulado_real"
    /\ pc = "get_pending"
    /\ \E r \in ListResponses :
         pc' = IF get_discipleship_requests(r).raised THEN "crashed"
               ELSE IF Approves(request_id) THEN "approve"
               ELSE "get_relationships"
    /\ UNCHANGED <<script, members, election_vars, discipulado>>

\* requests.put(.../api/discipleship-requests/{request_id}, approved);
\* if response.ok: approved = response.json()
RealApprove ==
    /\ script = "discipulado_real"
    /\ pc = "approve"
    /\ \E r \in Responses({NoBody}, NoBody) :
         /\ log' = Append(log, LogEntry("approve", 0, 0, request_id, Str(admin),
                                        r, <<>>))
         /\ pc' = IF created_id(r).raised THEN "crashed"
                  ELSE "get_relationships"
    /\ UNCHANGED <<script, members, election_vars, admins, interested,
                   relationship_id_1, request_id, req_to_reject, existing,
                   summary>>

\* requests.get(.../api/relationships) and the table of the recent ones
RealGetRelationships ==
    /\ script = "discipulado_real"
    /\ pc = "get_relationships"
    /\ \E r \in Responses(RelationshipLists, <<>>) :
         LET relationships == get_relationships(r) IN
         pc' = IF relationships.raised THEN "crashed"
               ELSE IF print_recent_raises(relationships.val) THEN "crashed"
               ELSE "get_requests"
    /\ UNCHANGED <<script, members, election_vars, discipulado>>

\* requests.get(.../api/discipleship-requests), the counts, and the last
\* lines of main: "VIA 1 ... agora discipula", "VIA 2 ... solicitou e foi
\* aprovado"
RealGetRequests ==
    /\ script = "discipulado_real"
    /\ pc = "get_requests"
    /\ \E r \in ListResponses :
         IF get_discipleship_requests(r).raised
         THEN pc' = "crashed" /\ UNCHANGED summary
         ELSE /\ pc' = "done"
              /\ summary' = <<"via1_agora_discipula", "via2_foi_aprovado">>
    /\ UNCHANGED <<script, members, election_vars, admins, interested,
                   relationship_id_1, request_id, req_to_reject, existing, log>>

\* A run of one of the two discipulado scripts, from its first request.
InitDiscipulado ==
    /\ script \in DiscipuladoScripts
    /\ pc = IF script = "discipulado" THEN GetUsersPc[ROLES[1]]
            ELSE "create_relationship"
    /\ members = <<>>
    /\ voters = <<>>
    /\ cfg_voters = <<>>
    /\ candidates = <<>>
    /\ config_id = 0
    /\ election_id = 0
    /\ pos = 0
    /\ vi = 1
    /\ votos = 0
    /\ erros = 0
    /\ noms = <<>>
    /\ votes = <<>>
    /\ round = <<>>
    /\ adv = [position |-> 0, ok |-> FALSE]
    /\ sent = [e \in Endpoints |-> 0]
    /\ last = NoRequest
    /\ shown = <<>>
    /\ outstanding = 0
    /\ NoDiscipulado

NextDiscipulado ==
    \/ GetUsersByRole
    \/ CreateRelationshipAdmin
    \/ GetRelationships
    \/ CreateDiscipleshipRequest
    \/ GetDiscipleshipRequests
    \/ ApproveDiscipleshipRequest
    \/ CreateRequestToReject
    \/ RejectDiscipleshipRequest
    \/ RealCreateRelationship
    \/ RealCreateRequest
    \/ RealLookupExisting
    \/ RealGetPending
    \/ RealApprove
    \/ RealGetRelationships
    \/ RealGetRequests

SpecDiscipulado == InitDiscipulado /\ [][NextDiscipulado]_vars

\* The runs of criar_eleicao_teste.py alone, executed to their end.
InitCriar == Init /\ script = "criar"

NextCriar ==
    \/ CriarIgreja
    \/ BuscarUsuarios
    \/ CriarConfiguracao
    \/ IniciarEleicao
    \/ RegistrarVoto
    \/ BuscarResultados

SpecCriar == InitCriar /\ [][NextCriar]_vars

\* The runs up to the end of the first nomination round (Parque) or up to the
\* start of the election (criar), against a server with up to MaxManyMembers
\* church members, more than the MAX_VOTERS voters a configuration takes.
NextManyMembers ==
    \/ MainGetManyMembers
    \/ MainCreateConfig
    \/ MainStartElection
    \/ V2Nominate
    \/ V1Nominate
    \/ CriarIgreja
    \/ BuscarUsuarios
    \/ CriarConfiguracao
    \/ IniciarEleicao

SpecManyMembers == Init /\ [][NextManyMembers]_vars

----------------------------------------------------------------------------
(* Quantities the properties speak of *)

RECURSIVE SumOver(_, _)
SumOver(f, D) ==
    IF D = {} THEN 0
    ELSE LET d == CHOOSE x \in D : TRUE IN f[d] + SumOver(f, D \ {d})

\* all nomination / vote requests of the run, over the positions
TotalNominations == SumOver(noms, DOMAIN noms)
TotalVotes == SumOver(votes, DOMAIN votes)

\* all HTTP requests of the run
TotalSent == SumOver(sent, Endpoints)

\* requests that belong to the election proper (everything but the fetch of
\* the users and the creation of the church)
ElectionRequests == TotalSent - sent["users"] - sent["churches"]

\* main returned early / main ran to its last line / an exception ended the run
ReturnedEarly == pc \in {"aborted_members", "aborted_config", "aborted_start"}
Finished == pc = "done"
Crashed == pc = "crashed"

\* the members/users a script requires before it builds a configuration
Required(s) == IF s = "criar" THEN MIN_USUARIOS ELSE MIN_MEMBERS

\* the fetch of the members/users has returned and main has tested its result
PastMemberCheck ==
    /\ script \in ParqueScripts \cup {"criar"}
    /\ pc \notin {"get_members", "criar_igreja", "buscar_usuarios", "crashed"}

----------------------------------------------------------------------------
(* C1 *)

\* C1: in every nomination request and every vote request an election script
\* sends, the candidate differs from the voter on whose behalf it is sent,
\* whatever candidate list the server returned for the voting phase.
C1_NeverSelf ==
    last.kind \in {"nomination", "vote"} => last.cand # last.voter

\* The part of C1 the code does keep: nominations never name the voter.
C1_NominationNeverSelf ==
    last.kind = "nomination" => last.cand # last.voter

----------------------------------------------------------------------------
(* C2 *)

\* C2: a run of the election driver with N voters and position list P sends
\* exactly N x |P| nomination requests; it sends exactly N x |P| vote requests
\* when no voting round is cut short, and never more than N x |P|.
C2_Counts ==
    (script \in ParqueScripts /\ Truthy(election_id) /\ (Finished \/ Crashed)) =>
        /\ TotalNominations = Len(voters) * Len(POSITIONS)
        /\ TotalVotes <= Len(voters) * Len(POSITIONS)
        /\ (\A p \in DOMAIN round : round[p] = "voted") =>
               TotalVotes = Len(voters) * Len(POSITIONS)

\* What holds of the runs no exception ends: the counts of C2.
C2_CountsWhenFinished ==
    (script \in ParqueScripts /\ Finished) =>
        /\ TotalNominations = Len(voters) * Len(POSITIONS)
        /\ TotalVotes <= Len(voters) * Len(POSITIONS)
        /\ (\A p \in DOMAIN round : round[p] = "voted") =>
               TotalVotes = Len(voters) * Len(POSITIONS)

----------------------------------------------------------------------------
(* C3 *)

\* C3: in both Parque scripts, once a vote request of a position has been
\* sent, exactly one nomination request per voter has been sent for that
\* position: all of them precede the first vote, and none follows it.
C3_NominationsBeforeVotes ==
    script \in ParqueScripts =>
        \A p \in DOMAIN votes : votes[p] > 0 => noms[p] = Len(voters)

\* A vote round of the second position is under way in the v2 driver.
C3_Witness ==
    /\ script = "parque_v2"
    /\ last.kind = "vote"
    /\ last.position = 1
    /\ votes[1] > 0

----------------------------------------------------------------------------
(* C4 *)

\* C4: in teste_eleicao_parque_v2.py a vote request for position k+1 is sent
\* only if advance_position(config_id, k+1) was requested before and
\* returned HTTP 200.
C4_VoteOnlyAfterAdvance ==
    (script = "parque_v2" /\ last.kind = "vote" /\ last.position >= 1) =>
        (adv.position = last.position /\ adv.ok)

----------------------------------------------------------------------------
(* C5 *)

\* C5 as stated: with fewer members than the requested voter count (10) no
\* configuration is POSTed and no later election request is sent.
C5_FailFastBelowVoterCount ==
    (PastMemberCheck /\ Len(members) < MAX_VOTERS) => ElectionRequests = 0

\* C5, amended: with fewer members than the script requires (5 in the Parque
\* scripts, 10 users in criar_eleicao_teste.py) no configuration is POSTed
\* and no later election request is sent.
C5_FailFastBelowMinimum ==
    (PastMemberCheck /\ Len(members) < Required(script)) => ElectionRequests = 0

\* A Parque run that fetched four members and stopped.
C5_Witness ==
    /\ script \in ParqueScripts
    /\ PastMemberCheck
    /\ Len(members) = MIN_MEMBERS - 1
    /\ sent["users"] = 1

----------------------------------------------------------------------------
(* C6 *)

\* C6: a nomination or vote submission reports success exactly when the
\* status is 200, and neither another status nor a transport exception
\* aborts the run: the voter loop goes on.
C6_FailureAbsorbed ==
    last.kind \in {"nomination", "vote"} =>
        /\ last.ok <=> (~last.exc /\ last.status = 200)
        /\ ~Crashed

\* The part of C6 the code does keep: success is reported exactly on 200.
C6_SuccessIff200 ==
    (last.kind \in {"nomination", "vote"} /\ ~Crashed) =>
        (last.ok <=> (~last.exc /\ last.status = 200))

----------------------------------------------------------------------------
(* C7 *)

\* C7: when GET /api/users ends in a transport failure or in a non-200
\* response, the fetch returns an empty sequence without raising.
C7_FetchFailsSoftly ==
    (last.kind = "users" /\ (last.exc \/ last.status # 200)) =>
        (~Crashed /\ members = <<>>)

----------------------------------------------------------------------------
(* C8 *)

\* C8: a non-200 answer to the configuration POST yields no config id and
\* ends the run; the start request is sent only after a configuration
\* submission returned an id, and nominations only after start returned an
\* election id.
C8_IdsGateTheRun ==
    script \in ParqueScripts \cup {"criar"} =>
        /\ (last.kind = "config" /\ ~last.exc /\ last.status # 200) =>
               (pc = "aborted_config" /\ ~Truthy(config_id))
        /\ sent["start"] > 0 => Truthy(config_id)
        /\ sent["nomination"] > 0 => Truthy(election_id)

\* The part of C8 the code does keep in all three scripts.
C8_Non200ConfigAborts ==
    script \in ParqueScripts \cup {"criar"} =>
        /\ (last.kind = "config" /\ ~last.exc /\ last.status # 200) =>
               (pc = "aborted_config" /\ ~Truthy(config_id))
        /\ sent["nomination"] > 0 => Truthy(election_id)

----------------------------------------------------------------------------
(* C9 *)

\* C9: when the 200 answer to start carries the id as nested election.id or
\* as a top-level id, start yields an election id and the run goes on to the
\* nomination rounds.
C9_BothShapesAccepted ==
    (last.kind = "start" /\ ~last.exc /\ last.status = 200
        /\ (Truthy(last.body.election) \/ Truthy(last.body.id))) =>
        (Truthy(election_id) /\ pc \in {"nominate", "votacao"})

----------------------------------------------------------------------------
(* C10 *)

----------------------------------------------------------------------------
(* C11 *)

\* C11: show_results of teste_eleicao_parque.py is shape-tolerant: a position
\* whose value is a raw list of candidates and a position whose value is a
\* dict holding the same list under 'candidates' are normalized to the same
\* candidate sequence (the list itself, in its order) and print the same top
\* entries, and a results answer in these shapes ends the run without error.
C11_ShapeTolerant ==
    /\ \A j, k \in DOMAIN shown :
         (/\ shown[j].data.is_list
          /\ shown[k].data.has_candidates
          /\ shown[j].data.list = shown[k].data.candidates) =>
             /\ shown[j].candidates = shown[j].data.list
             /\ shown[k].candidates = shown[j].candidates
             /\ shown[k].top = shown[j].top
             /\ Len(shown[j].top) = min(TOP_RESULTS, Len(shown[j].data.list))
    /\ Len(shown) > 0 => pc = "done"

\* The results answer gave the same list of more than three candidates as a
\* raw list for one position and under 'candidates' for another.
C11_Witness ==
    /\ script = "parque"
    /\ last.kind = "results"
    /\ \E j, k \in DOMAIN shown :
         /\ shown[j].data.is_list
         /\ shown[k].data.has_candidates
         /\ shown[j].data.list = shown[k].data.candidates
         /\ Len(shown[j].data.list) > TOP_RESULTS
         /\ Len(shown[k].top) = TOP_RESULTS

----------------------------------------------------------------------------
(* C12 *)

\* The v2 driver asks for the phase 'voting' again while the election, as far
\* as the answers tell, is still in it: the vote round of the previous
\* position took place and the advance_position that followed it failed.
ReissuedAdvanceVoting ==
    /\ script = "parque_v2"
    /\ last.kind = "advance_phase"
    /\ last.phase = "voting"
    /\ last.position >= 1
    /\ round[last.position - 1] = "voted"
    /\ adv.position = last.position
    /\ ~adv.ok

\* C12: re-issuing advance_phase with a target phase the election is already
\* in never crashes the client: whatever the server answers, the call is an
\* ordinary outcome and the run goes on.
C12_ReissueNeverCrashes ==
    (ReissuedAdvanceVoting /\ ~last.exc) => ~Crashed

\* The part of C12 the code does keep: a non-200 answer to the re-issued
\* advance is an ordinary outcome.
C12_RejectionIsOrdinary ==
    (ReissuedAdvanceVoting /\ ~last.exc /\ last.status # 200) => ~Crashed

----------------------------------------------------------------------------
(* C13 *)

----------------------------------------------------------------------------
(* C14 *)

\* C14: every HTTP request any script sends carries an x-user-id header with
\* a string value; a nomination or vote request carries the acting voter's
\* id in it, and a candidate-list fetch the id of the voter it is scoped to.
C14_EveryRequestCarriesUser ==
    last.kind # "none" =>
        /\ last.xuser # NoHeader
        /\ last.xuser[1] = "str"
        /\ last.kind \in {"nomination", "vote", "voting"} =>
               last.xuser = Str(last.voter)

\* The part of C14 the code does keep: the Parque scripts and votar.py send
\* the header, as a string, with the acting voter's id where there is one and
\* the administrator's id elsewhere.
C14_ParqueAndVotarCarryUser ==
    (script # "criar" /\ last.kind # "none") =>
        /\ last.xuser # NoHeader
        /\ last.xuser[1] = "str"
        /\ last.xuser = IF last.kind \in {"nomination", "vote", "voting"}
                        THEN Str(last.voter) ELSE Str(ADMIN_USER_ID)

----------------------------------------------------------------------------
(* C15 *)

\* The advance that closes position k has been requested: advance_position(k+1)
\* in the v2 driver; in teste_eleicao_parque.py the advance_phase that follows
\* the vote round of k, which comes after one advance_phase per nomination round.
ClosingAdvanceSent(k) ==
    IF script = "parque_v2" THEN adv.position = k + 1
    ELSE sent["advance_phase"] >= Len(POSITIONS) + k + 1

\* Within a position: the candidate fetch, by the first voter, follows all
\* nominations and precedes all votes; votes follow a fetch that gave
\* candidates; positions are taken in list order.
PerPositionOrder ==
    /\ last.kind = "voting" =>
           /\ last.voter = voters[1]
           /\ noms[last.position] = Len(voters)
           /\ votes[last.position] = 0
    /\ \A p \in DOMAIN votes :
           votes[p] > 0 => (noms[p] = Len(voters) /\ round[p] = "voted")
    /\ \A p, q \in DOMAIN noms :
           (q < p /\ noms[p] > 0) => noms[q] = Len(voters)

\* C15: both Parque drivers process the positions one at a time, in list
\* order, each as nominations, advance to voting, candidate fetch for the
\* first voter, votes, closing advance; no nomination of position k+1 is sent
\* before the vote round and the closing advance of position k (a round the
\* driver gave up after a failed advance or fetch set aside).
C15_PositionsOneAtATime ==
    script \in ParqueScripts =>
        /\ PerPositionOrder
        /\ (last.kind = "nomination" /\ last.position >= 1
                /\ round[last.position - 1] # "cut") =>
               /\ votes[last.position - 1] = Len(voters)
               /\ ClosingAdvanceSent(last.position - 1)

\* The part of C15 the code does keep: the v2 driver works one position at a
\* time, and both drivers keep the order within a position.
C15_V2OnePositionAtATime ==
    /\ script \in ParqueScripts => PerPositionOrder
    /\ (script = "parque_v2" /\ last.kind = "nomination" /\ last.position >= 1
            /\ round[last.position - 1] # "cut") =>
           /\ votes[last.position - 1] = Len(voters)
           /\ ClosingAdvanceSent(last.position - 1)

----------------------------------------------------------------------------
(* C16 *)

\* All voters have voted for position p and the step after the vote loop has
\* been taken.
VoteRoundLeft(p) ==
    /\ votes[p] = Len(voters)
    /\ Len(voters) > 0
    /\ ~(pc = "close" /\ pos = p)
    /\ ~(Crashed /\ last.kind = "vote" /\ last.position = p)

\* All voters have nominated for position p and the step after the
\* nomination loop has been taken.
NominationRoundLeft(p) ==
    /\ noms[p] = Len(voters)
    /\ Len(voters) > 0
    /\ ~(pc = "advance_voting" /\ pos = p)
    /\ ~(Crashed /\ last.kind = "nomination" /\ last.position = p)

LastIndex == Len(POSITIONS) - 1

\* C16: in teste_eleicao_parque_v2.py the vote round of position i is followed
\* by exactly one closing advance: advance_position(i+1) when i is not the
\* last index, advance_phase('completed') when it is; advance_position is
\* never requested with an index outside 1..|P|-1.
C16_OneClosingAdvance ==
    script = "parque_v2" =>
        /\ last.kind = "advance_position" =>
               /\ last.position \in 1..LastIndex
               /\ VoteRoundLeft(last.position - 1)
        /\ (last.kind = "advance_phase" /\ last.phase = "completed") =>
               VoteRoundLeft(LastIndex)
        /\ sent["advance_position"] =
               Cardinality({p \in 0..(LastIndex - 1) : VoteRoundLeft(p)})
        /\ sent["advance_phase"] =
               Cardinality({p \in 0..LastIndex : NominationRoundLeft(p)})
               + (IF VoteRoundLeft(LastIndex) THEN 1 ELSE 0)

\* All three positions were voted: two advance_position requests, then the
\* advance to 'completed'.
C16_Witness ==
    /\ script = "parque_v2"
    /\ last.kind = "advance_phase"
    /\ last.phase = "completed"
    /\ sent["advance_position"] = LastIndex
    /\ sent["advance_phase"] = Len(POSITIONS) + 1

----------------------------------------------------------------------------
(* C17 *)

\* A step that sends a request of the kind counted in count sends it for one
\* position only, on behalf of the voter whose turn it is: the n-th request
\* of a position is by the n-th voter, and there is no request after the
\* last voter's.
OneRequestPerTurn(count, count_) ==
    \A p \in DOMAIN count :
        count_[p] # count[p] =>
            /\ count_[p] = count[p] + 1
            /\ count_[p] <= Len(voters)
            /\ \A q \in DOMAIN count : q # p => count_[q] = count[q]

\* C17: nothing is retried: in one run, for each (voter, position) pair at
\* most one nomination request and at most one vote request is sent, whether
\* or not the attempt failed.  The voters are pairwise distinct, and each
\* request of a position is sent by the next voter of the list.
C17_NothingRetried ==
    [][/\ voters' # voters =>
              \A i, j \in DOMAIN voters' : i # j => voters'[i] # voters'[j]
       /\ noms' # noms =>
              /\ OneRequestPerTurn(noms, noms')
              /\ last'.kind = "nomination"
              /\ noms'[last'.position] # noms[last'.position]
              /\ last'.voter = voters'[noms'[last'.position]]
       /\ votes' # votes =>
              /\ OneRequestPerTurn(votes, votes')
              /\ last'.kind = "vote"
              /\ votes'[last'.position] # votes[last'.position]
              /\ last'.voter = voters'[votes'[last'.position]]
       /\ (last' # last /\ last'.kind \in {"nomination", "vote"}) =>
              (noms' # noms \/ votes' # votes)]_vars

\* A nomination failed, it was the last voter's, and the driver has gone on
\* to the advance with one nomination per voter sent.
C17_Witness ==
    /\ script = "parque_v2"
    /\ last.kind = "nomination"
    /\ ~last.ok
    /\ last.status = 500
    /\ pc = "advance_voting"
    /\ noms[last.position] = Len(voters)

----------------------------------------------------------------------------
(* C18 *)

\* The final results fetch has been sent and main has run to its last line.
ReachedResults == Finished /\ sent["results"] + sent["manage"] > 0

\* C18: every run of a Parque driver that has started an election eventually
\* reaches the final results fetch and the end of main, whichever nomination,
\* vote, advance or candidate-fetch requests fail on the way.
C18_ReachesResults ==
    (script \in ParqueScripts /\ Truthy(election_id)) ~> ReachedResults

\* The part of C18 the code does keep: a run that has started an election
\* reaches the results fetch and the end of main unless an exception ends it.
C18_ReachesResultsUnlessRaised ==
    (script \in ParqueScripts /\ Truthy(election_id)) ~> (ReachedResults \/ Crashed)

----------------------------------------------------------------------------
(* C19 *)

\* The candidate fetch failed (a non-200 answer) or returned a status with an
\* empty candidate list.
FetchGaveNoCandidates ==
    /\ last.kind = "voting"
    /\ ~last.exc
    /\ \/ last.status # 200
       \/ last.status = 200 /\ ~last.body.empty /\ last.body.candidates = <<>>

\* Where a Parque driver goes on after it gave up the vote round of position p.
AfterRoundGivenUp(p) ==
    IF p < LastIndex
    THEN pc = (IF script = "parque_v2" THEN "nominate" ELSE "fetch") /\ pos = p + 1
    ELSE pc = "show_results"

\* C19: when the candidate fetch of a position fails (non-200) or returns an
\* empty candidate list, no vote request is sent for that position, and the
\* run goes on with the next position, or with the results fetch after the
\* last one.
C19_NoCandidatesNoVotes ==
    script \in ParqueScripts =>
        /\ FetchGaveNoCandidates =>
               /\ round[last.position] = "cut"
               /\ AfterRoundGivenUp(last.position)
        /\ \A p \in DOMAIN round : round[p] = "cut" => votes[p] = 0

\* The fetch of the first position answered 500 and the v2 driver is at the
\* nominations of the second position.
C19_Witness ==
    /\ script = "parque_v2"
    /\ FetchGaveNoCandidates
    /\ last.status = 500
    /\ last.position = 0
    /\ pc = "nominate"
    /\ pos = 1
    /\ votes[0] = 0

----------------------------------------------------------------------------
(* C20 *)

\* C20: the client never has more than one request outstanding; within a
\* position the nomination (and vote) requests reach the server in the order
\* of the voters list, the n-th by the n-th voter; and no request of position
\* k+1 overtakes a request of position k: when a nomination (vote) of a
\* position is sent, no nomination (vote) of a later position has been sent,
\* and in the v2 driver no request of either kind.
C20_OneOutstandingInOrder ==
    /\ outstanding <= 1
    /\ last.kind = "nomination" =>
           /\ last.voter = voters[noms[last.position]]
           /\ \A p \in DOMAIN noms : p > last.position => noms[p] = 0
    /\ last.kind = "vote" =>
           /\ last.voter = voters[votes[last.position]]
           /\ \A p \in DOMAIN votes : p > last.position => votes[p] = 0
    /\ (script = "parque_v2" /\ last.kind \in {"nomination", "vote", "voting"}) =>
           \A p \in DOMAIN noms : p > last.position => (noms[p] = 0 /\ votes[p] = 0)

\* The v2 driver waits in the call of the third vote of the second position.
C20_Witness ==
    /\ script = "parque_v2"
    /\ outstanding = 1
    /\ last.kind = "vote"
    /\ last.position = 1
    /\ votes[1] = 2
    /\ last.voter = voters[2]

----------------------------------------------------------------------------
(* C21 *)

\* C21: every vote request names a candidate of the candidate list fetched
\* for that position in the same round; in teste_eleicao_parque_v2.py the
\* candidate is one of the first 10 entries of that list.  The candidate
\* comes from the fetched list, not from the local member list: it may be
\* someone who is no member at all.
C21_VoteFromFetchedList ==
    (script \in ParqueScripts /\ last.kind = "vote") =>
        /\ round[last.position] = "voted"
        /\ \E i \in DOMAIN candidates : candidates[i] = last.cand
        /\ script = "parque_v2" =>
               \E i \in 1..min(TOP_N, Len(candidates)) : candidates[i] = last.cand

\* The server listed more than 10 candidates and the v2 driver voted for the
\* tenth, who is not among the local members.
C21_Witness ==
    /\ script = "parque_v2"
    /\ last.kind = "vote"
    /\ Len(candidates) > TOP_N
    /\ last.cand = candidates[TOP_N]
    /\ last.cand \notin Range(members)

----------------------------------------------------------------------------
(* C22 *)

\* The advance_phase('completed') requests of a v2 run: its advance_phase
\* requests that are not the advance to 'voting' of a nomination round.
CompletedRequests ==
    sent["advance_phase"] - Cardinality({p \in 0..LastIndex : NominationRoundLeft(p)})

\* advance_phase('completed') is sent at most once, while the last position
\* is in process and after its votes, and only the final GET follows it.
CompletedOnceAndLast ==
    /\ CompletedRequests \in {0, 1}
    /\ CompletedRequests = 1 =>
           /\ pos = LastIndex
           /\ votes[LastIndex] = Len(voters)
           /\ pc \in {"show_results", "done", "crashed"}
           /\ \/ last.kind = "advance_phase" /\ last.phase = "completed"
              \/ last.kind = "manage"

\* C22: in teste_eleicao_parque_v2.py advance_phase('completed') is sent at
\* most once per run, only for the last position and after its votes, and
\* after it only the final GET is sent; it is sent if and only if the voting
\* round of the last position was reached (advance to voting 200, candidate
\* fetch 200, candidates not empty).
C22_CompletedIffLastRoundReached ==
    script = "parque_v2" =>
        /\ CompletedOnceAndLast
        /\ (Finished \/ Crashed) =>
               (CompletedRequests = 1 <=> round[LastIndex] = "voted")

\* What holds of the runs no exception ends.
C22_CompletedIffLastRoundVoted ==
    script = "parque_v2" =>
        /\ CompletedOnceAndLast
        /\ Finished => (CompletedRequests = 1 <=> round[LastIndex] = "voted")

----------------------------------------------------------------------------
(* C23 *)

\* The request r is an advance of the phase that was answered with a status
\* other than 200.
AdvanceRefused(r) ==
    r.kind = "advance_phase" /\ ~r.exc /\ r.status # 200

\* C23: in teste_eleicao_parque_v2.py, after the advance to 'voting' of
\* position k is answered non-200, no candidate fetch, vote, advance_position
\* or advance_phase('completed') of position k is sent: the request that
\* follows is the first nomination of position k+1 (the final GET after the
\* last position).  A candidate fetch follows only a successful advance to
\* voting of its position, a vote only that fetch or a vote of the position,
\* a closing advance only a vote of the position.  In teste_eleicao_parque.py
\* a refused advance is only logged: the run goes on as after a successful one.
C23_RefusedAdvanceSkipsRound ==
    [][last' # last =>
         /\ (script = "parque_v2" /\ AdvanceRefused(last) /\ last.phase = "voting") =>
                /\ round[last.position] = "cut"
                /\ votes'[last.position] = 0
                /\ IF last.position < LastIndex
                   THEN /\ last'.kind = "nomination"
                        /\ last'.position = last.position + 1
                        /\ noms'[last'.position] = 1
                   ELSE last'.kind = "manage"
         /\ (script = "parque_v2" /\ last'.kind = "voting") =>
                /\ last.kind = "advance_phase"
                /\ last.phase = "voting"
                /\ last.ok
                /\ last.position = last'.position
         /\ (script = "parque_v2" /\ last'.kind = "vote") =>
                /\ \/ last.kind = "voting" /\ last.ok
                   \/ last.kind = "vote"
                /\ last.position = last'.position
         /\ (script = "parque_v2" /\ last'.kind = "advance_position") =>
                (last.kind = "vote" /\ last.position = last'.position - 1)
         /\ (script = "parque_v2" /\ last'.kind = "advance_phase"
                 /\ last'.phase = "completed") =>
                (last.kind = "vote" /\ last.position = last'.position)
         /\ (script = "parque" /\ AdvanceRefused(last)) =>
                /\ last'.kind \in {"nomination", "voting", "results"}
                /\ last'.kind = "nomination" => last'.position = last.position + 1
                /\ last'.kind = "results" => last.position = LastIndex
      ]_vars

\* The advance to voting of the first position was refused and the v2 driver
\* has sent the first nomination of the second position, with no fetch and no
\* vote so far.
C23_Witness ==
    /\ script = "parque_v2"
    /\ last.kind = "nomination"
    /\ last.position = 1
    /\ round[0] = "cut"
    /\ sent["voting"] = 0
    /\ sent["advance_position"] = 0
    /\ votes[0] = 0

----------------------------------------------------------------------------
(* C24 *)

\* C24: in votar.py every turn of the loop processes the next (voter,
\* candidate) pair of the two lists with one nomination request, and adds one
\* to votos_ok when the answer is HTTP 200 and one to votos_erro otherwise
\* (another status, or an exception): after each pair votos_ok + votos_erro
\* is the number of pairs processed, and the loop ends after the tenth pair
\* and not before, whatever failed.
C24_VotarCounters ==
    [][script = "votar" =>
         /\ vi' = vi + 1
         /\ votos' + erros' = vi
         /\ sent'["nomination"] = vi
         /\ TotalSent' = vi
         /\ last'.kind = "nomination"
         /\ last'.voter = votantes[vi]
         /\ last'.cand = candidatos[vi]
         /\ last'.xuser = Str(votantes[vi])
         /\ votos' = votos + (IF ~last'.exc /\ last'.status = 200 THEN 1 ELSE 0)
         /\ (pc' = "done") <=> (vi = Len(votantes))
         /\ pc' \in {"votar", "done"}
      ]_vars

\* votar.py ended: nine requests failed and the
\* tenth, sent all the same, was answered 200.
C24_Witness ==
    /\ script = "votar"
    /\ Finished
    /\ votos = 1
    /\ erros = 9
    /\ votos + erros = Len(votantes)
    /\ last.ok
    /\ last.voter = votantes[10]

----------------------------------------------------------------------------
(* C25: the guards of main in criar_eleicao_teste.py *)

\* The three guards: no candidate is a voter, a vote was sent only with an
\* election id, the results were asked only after a vote answered 200.
CriarGuards ==
    /\ Range(candidates) \cap Range(voters) = {}
    /\ sent["nomination"] > 0 => Truthy(election_id)
    /\ sent["results"] > 0 => votos > 0

\* A run that found exactly 10 users: they are all voters, nobody is left
\* to be a candidate, no vote and no results request has been sent.
TenUsersNothingSent ==
    Len(members) = NUM_VOTANTES =>
        /\ candidates = <<>>
        /\ sent["nomination"] = 0
        /\ sent["results"] = 0

\* The run found exactly 10 users and its election was started with an id:
\* realizar_votacao is running.
TenUsersVoting == pc = "votacao" /\ Len(members) = NUM_VOTANTES

\* The number of the turn of realizar_votacao the run is at, counting the
\* (cargo, votante) pairs in the order of the two nested loops.
VotacaoTurn == pos * Len(voters) + vi

\* C25: in criar_eleicao_teste.py no candidate is a voter, vote requests are
\* sent only when an election id was obtained, and the results are requested
\* only after a vote was answered 200; with exactly 10 users the candidate
\* pool is empty, no vote and no results request is sent, and the run whose
\* election was started still reaches the completion message: each of the
\* at most 100 turns of realizar_votacao either is the last one and ends the
\* run there, or moves on to the next turn.
C25_CriarGuards ==
    /\ CriarGuards /\ TenUsersNothingSent
    /\ [][/\ CriarGuards' /\ TenUsersNothingSent'
          /\ TenUsersVoting =>
                /\ VotacaoTurn \in 1..(Len(CARGOS) * NUM_VOTANTES)
                /\ \/ Finished'
                   \/ TenUsersVoting' /\ VotacaoTurn' = VotacaoTurn + 1
                /\ Finished' <=> VotacaoTurn = Len(CARGOS) * NUM_VOTANTES]_vars

\* A finished run with exactly 10 users: the election was started with an
\* id, every turn of realizar_votacao was skipped, nothing was asked after.
C25_Witness ==
    /\ script = "criar"
    /\ Finished
    /\ Len(members) = NUM_VOTANTES
    /\ Len(voters) = NUM_VOTANTES
    /\ Truthy(election_id)
    /\ sent["start"] = 1
    /\ candidates = <<>>
    /\ votos = 0
    /\ sent["nomination"] = 0
    /\ sent["results"] = 0

----------------------------------------------------------------------------
(* C26: what teste_discipulado.py creates, approves and rejects *)

\* The positions in the log of the requests of one kind.
Logged(kind) == {i \in 1..Len(log) : log[i].kind = kind}

\* The request an update names was created before it in this run, by a
\* creation the server answered ok with that id.
CreatedInThisRun(i) ==
    \E j \in Logged("create_request") :
        /\ j < i
        /\ log[j].ok
        /\ log[j].id = log[i].target

----------------------------------------------------------------------------
(* C27: what teste_discipulado_real.py approves and reports *)

\* The approval names the request the run has just created.
ApprovesJustCreated(i) == CreatedInThisRun(i)

\* The approval names a listed request that the run took over after its
\* creation was refused as already existing.
ApprovesTakenOver(i) ==
    /\ \E j \in Logged("create_request") : j < i /\ log[j].refused_as_existing
    /\ existing # NoEntry
    /\ log[i].target = existing.id

\* The request the run took over is pending and is the one of discipulador2
\* for interessado2.
TakenOverIsOfThePair ==
    /\ existing.status = "pending"
    /\ existing.interestedId = interessado2
    /\ existing.missionaryId = discipulador2

\* The summary says that discipulador2 was approved for interessado2.
ReportsApproval == "via2_foi_aprovado" \in Range(summary)

\* An approval was sent and answered ok.
ApprovalSucceeded == \E i \in Logged("approve") : log[i].ok

\* C27: in teste_discipulado_real.py the request the admin approves is a
\* pending request of discipulador2 for interessado2, the one just created
\* or, when the creation was refused as already existing, the existing
\* pending one of that pair; no approval is sent when there is none; the
\* summary reports the approval only if an approval was answered ok.
C27_ApprovesRequestOfThePair ==
    script = "discipulado_real" =>
        /\ \A i \in Logged("approve") :
              \/ ApprovesJustCreated(i)
              \/ ApprovesTakenOver(i) /\ TakenOverIsOfThePair
        /\ ReportsApproval => ApprovalSucceeded

\* What the lookup does ensure: the request approved is the one just
\* created or a listed pending request of interessado2, whoever asked for it.
C27_ApprovesPendingOfInterested ==
    script = "discipulado_real" =>
        \A i \in Logged("approve") :
            /\ Truthy(log[i].target)
            /\ \/ ApprovesJustCreated(i)
               \/ /\ ApprovesTakenOver(i)
                  /\ existing.status = "pending"
                  /\ existing.interestedId = interessado2

\* The approval never names a request of another discipulador.
C27_NeverOfAnotherDiscipulador ==
    script = "discipulado_real" =>
        \A i \in Logged("approve") :
            ApprovesTakenOver(i) => existing.missionaryId = discipulador2

\* The summary reports the approval only after an approval answered ok.
C27_ReportsOnlyAfterApproval ==
    script = "discipulado_real" => (ReportsApproval => ApprovalSucceeded)

====
